---- MODULE Spec2Model ----
(***************************************************************************)
(* Rig Connector (rig_connector_pro.py): the RigConnector session object,  *)
(* the ControlMappingUI that remaps a live session, and the part of the    *)
(* Maya scene they read and write (nodes, attribute connections, the       *)
(* weight scalars of the blend controller).                                *)
(*                                                                         *)
(* Floats are held in tenths: 5 is 0.5, 10 is 1.0.                         *)
(* Python None is the string "None" in a slot, a return value or           *)
(* control_locator; a TargetRig that was never set is NoTarget.            *)
(***************************************************************************)
EXTENDS Integers, Sequences, FiniteSets, TLC

VARIABLES
    \* ---- RigConnector fields, one value per session object
    target, drivers, control_locator, normalize_weights, use_constraints,
    control_mapping, constraint_nodes, blend_nodes, blacklist_attrs,
    \* ---- ControlMappingUI.mapping_rows of the mapping window of a session
    mapping_rows,
    \* ---- the Maya scene
    nodes,          \* names of the nodes that exist
    conn,           \* attribute connections <<srcNode, srcAttr, dstNode, dstAttr>>
    weight_attrs,   \* values of driver_k_weight on rig_connector_CTRL (k = index)
    geo_visibility, \* value of <Geometry node>.visibility
    locked_attrs,   \* plugs <<node, attr>> that are locked in the scene
    string_attrs,   \* plugs <<node, attr>> holding a non-numeric attribute
    selection,      \* the selection list
    config_file,    \* what the configuration file holds (NoFile: no file)
    \* ---- history of the calls, read only by the properties
    last,                 \* the latest call: [op, s, index, ret, was]
    calls,                \* how many calls have been made
    nodes_before_connect, \* per session: `nodes` when its latest connect_rigs began
    \* ---- GT_tools/camera_switcher.py: the globals of the module
    camera_checkboxes,    \* camera -> value of the checkbox the dictionary names
    checked_cameras, current_index, saved_cameras,
    look_thru,            \* the camera the view looks through ("None": another one)
    \* ---- Create_Master_Cam.py: the scene it animates
    master_keys           \* keyframes <<frame, source>> of the master camera and its shape

vars == <<target, drivers, control_locator, normalize_weights, use_constraints,
          control_mapping, constraint_nodes, blend_nodes, blacklist_attrs,
          mapping_rows, nodes, conn, weight_attrs, geo_visibility, locked_attrs,
          string_attrs, selection, config_file, last, calls, nodes_before_connect,
          camera_checkboxes, checked_cameras, current_index, saved_cameras,
          look_thru, master_keys>>

sessionVars == <<target, drivers, control_locator, normalize_weights,
                 use_constraints, control_mapping, constraint_nodes,
                 blend_nodes, blacklist_attrs>>

sceneVars == <<nodes, conn, weight_attrs, geo_visibility, selection>>

\* the globals of the camera switcher and the keys of the master camera
cameraVars == <<camera_checkboxes, checked_cameras, current_index, saved_cameras,
                look_thru>>

\* what the rig connector holds and what of the scene only it works on
rigVars == <<sessionVars, mapping_rows, conn, weight_attrs, geo_visibility,
             locked_attrs, string_attrs, selection, config_file,
             nodes_before_connect>>

-----------------------------------------------------------------------------
(* Bounds of the model *)

\* add_driver is not taken once a session holds this many drivers
MaxDrivers == 2
\* a run makes at most this many calls
MaxCalls == 4
\* Maya's automatic numbering of clashing node names: largest suffix modelled
MaxSuffix == 9

Sessions == {"A", "B"}

-----------------------------------------------------------------------------
(* The scene the sessions work on *)

Locator == "rig_connector_CTRL"
LocatorShape == "rig_connector_CTRLShape"

\* a node somebody else named: it is no part of any session's graph
ForeignTagged == "old_rig_connector_grp"

TargetControls == {"tgt:arm", "tgt:leg"}
\* rig drvC holds two controls named arm, which Maya lists by their paths, and
\* a control of no namespace under drvC:hips
DriverControls == {"drvA:arm", "drvA:leg", "drvB:arm",
                   "drvC:IK|drvC:arm", "drvC:fk|drvC:arm", "drvC:hips|leg"}
\* a transform of rig drvB that is no member of its control set
LooseControls == {"drvB:hand"}
Controls == TargetControls \cup DriverControls \cup LooseControls

GeometryNodes == {"tgt:Geometry", "drvA:Geometry"}

\* cmds.sets(control_set, q=True): the members of the object sets of the scene
SetMembers ==
    [cs \in {"tgt:ControlSet", "drvA:ControlSet", "drvB:ControlSet", "drvC:ControlSet",
             "emptySet"} |->
        CASE cs = "tgt:ControlSet" -> {"tgt:arm", "tgt:leg"}
          [] cs = "drvA:ControlSet" -> {"drvA:arm", "drvA:leg"}
          [] cs = "drvB:ControlSet" -> {"drvB:arm"}
          [] cs = "drvC:ControlSet" -> {"drvC:IK|drvC:arm", "drvC:fk|drvC:arm", "drvC:hips|leg"}
          [] OTHER -> {}]

ObjectSets == DOMAIN SetMembers

\* the nodes of the rigs: they are never created or deleted by the tool
RigNodes == Controls \cup GeometryNodes \cup ObjectSets

\* name.split(':'): the segments of a name between colons
ColonSplit(name) ==
    CASE name = "tgt:arm"  -> <<"tgt", "arm">>
      [] name = "tgt:leg"  -> <<"tgt", "leg">>
      [] name = "drvA:arm" -> <<"drvA", "arm">>
      [] name = "drvA:leg" -> <<"drvA", "leg">>
      [] name = "drvB:arm" -> <<"drvB", "arm">>
      [] name = "drvB:hand" -> <<"drvB", "hand">>
      [] name = "drvC:IK|drvC:arm" -> <<"drvC", "IK|drvC", "arm">>
      [] name = "drvC:fk|drvC:arm" -> <<"drvC", "fk|drvC", "arm">>
      [] name = "drvC:hips|leg" -> <<"drvC", "hips|leg">>
      [] OTHER -> <<name>>

\* name.split('|'): the segments of a name between the bars of a path
PipeSplit(name) ==
    CASE name = "hips|leg" -> <<"hips", "leg">>
      [] name = "IK|drvC" -> <<"IK", "drvC">>
      [] name = "fk|drvC" -> <<"fk", "drvC">>
      [] OTHER -> <<name>>

Last(seq) == seq[Len(seq)]

\* strip_ns / the inline `x.split(':')[-1].split('|')[-1]`
strip_ns(name) == Last(PipeSplit(Last(ColonSplit(name))))

\* `controls[0].split(':')[0]` when ':' is in controls[0], else ""
NamespaceOf(controls) ==
    IF Len(controls) > 0 /\ Len(ColonSplit(controls[1])) > 1
    THEN ColonSplit(controls[1])[1]
    ELSE ""

\* position of a name under key=str.lower
LowerRank(name) ==
    CASE name = "drvA:arm" -> 1
      [] name = "drvA:leg" -> 2
      [] name = "drvB:arm" -> 3
      [] name = "drvB:hand" -> 4
      [] name = "drvC:fk|drvC:arm" -> 5
      [] name = "drvC:hips|leg" -> 6
      [] name = "drvC:IK|drvC:arm" -> 7
      [] name = "tgt:arm" -> 8
      [] name = "tgt:leg" -> 9
      [] OTHER -> 10

\* position of a name under the order of the code points: capitals come first
CodePointRank(name) ==
    CASE name = "drvC:IK|drvC:arm" -> 5
      [] name = "drvC:fk|drvC:arm" -> 6
      [] name = "drvC:hips|leg" -> 7
      [] OTHER -> LowerRank(name)

RECURSIVE SortedCodePoint(_)
\* sorted(S) without the key
SortedCodePoint(S) ==
    IF S = {} THEN <<>>
    ELSE LET m == CHOOSE x \in S : \A y \in S : CodePointRank(x) <= CodePointRank(y)
         IN <<m>> \o SortedCodePoint(S \ {m})

RECURSIVE SortedLower(_)
\* sorted(S, key=str.lower)
SortedLower(S) ==
    IF S = {} THEN <<>>
    ELSE LET m == CHOOSE x \in S : \A y \in S : LowerRank(x) <= LowerRank(y)
         IN <<m>> \o SortedLower(S \ {m})

\* cmds.listAttr(ctrl, keyable=True, unlocked=True, visible=True)
listAttr(ctrl) ==
    CASE ctrl = "tgt:arm" -> <<"tx", "ty", "tz", "rx", "ry", "rz", "sx", "sy", "sz", "v", "curl", "spread">>
      [] ctrl = "tgt:leg" -> <<"tx", "ty", "tz", "rx", "ry", "rz", "sx", "sy", "sz", "v", "curl">>
      [] OTHER -> <<"tx", "ty", "tz", "rx", "ry", "rz", "sx", "sy", "sz", "v">>

\* cmds.attributeQuery(attr, node=ctrl, exists=True)
attributeQuery(attr, ctrl) ==
    CASE ctrl = "drvA:arm" -> attr \in {"curl", "spread"}
      [] ctrl = "drvA:leg" -> attr \in {"curl"}
      [] ctrl = "drvB:arm" -> attr \in {"curl"}
      [] ctrl = "drvB:hand" -> attr \in {"curl"}
      [] OTHER -> FALSE

standard_attrs == {"tx", "ty", "tz", "rx", "ry", "rz", "sx", "sy", "sz", "v"}

CustomAttrNames == {"curl", "spread"}

-----------------------------------------------------------------------------
(* Names of the nodes the tool creates *)

Numbered(base, k) == IF k = 0 THEN base ELSE base \o ToString(k)

PointName(t) == "pointConstraint_rig_connector_" \o strip_ns(t)
OrientName(t) == "orientConstraint_rig_connector_" \o strip_ns(t)
MultBase(attr) == "mult_rig_connector_" \o attr
PlusBase(attr) == "plus_rig_connector_" \o attr

ConstraintNames == {PointName(t) : t \in Controls} \cup {OrientName(t) : t \in Controls}

MultNames == {Numbered(MultBase(a), k) : a \in CustomAttrNames, k \in 0..(MaxSuffix + 1)}
PlusNames == {Numbered(PlusBase(a), k) : a \in CustomAttrNames, k \in 0..(MaxSuffix + 1)}

\* `'rig_connector' in node`
HasTag(node) ==
    \/ node \in ({Locator, LocatorShape, ForeignTagged} \cup ConstraintNames
                 \cup MultNames \cup PlusNames)
    \/ \E k \in 1..MaxSuffix :
          node \in {Numbered(Locator, k), "rig_connector_CTRLShape" \o ToString(k)}

Tagged(ns) == {n \in ns : HasTag(n)}

\* the name Maya gives a node created as `base`: base, or base with the first
\* free number when the name is taken ("" when the model has run out of numbers)
UniqueName(ns, base) ==
    IF \E k \in 0..MaxSuffix : Numbered(base, k) \notin ns
    THEN Numbered(base, CHOOSE k \in 0..MaxSuffix :
                          /\ Numbered(base, k) \notin ns
                          /\ \A j \in 0..(k - 1) : Numbered(base, j) \in ns)
    ELSE ""

-----------------------------------------------------------------------------
(* Maya commands on a scene value sc = [nodes, conn] *)

\* DAG children deleted with their parent
Children(n) == IF n = Locator THEN {LocatorShape} ELSE {}

\* cmds.delete(n): the node, its DAG children, and every connection to them
DeleteNodes(sc, gone) ==
    LET all == gone \cup UNION {Children(n) : n \in gone}
    IN [sc EXCEPT !.nodes = sc.nodes \ all,
                  !.conn = {c \in sc.conn : c[1] \notin all /\ c[3] \notin all}]

\* cmds.connectAttr(src, dst, force=True): dst has one incoming connection
ConnectForce(cn, sn, sa, dn, da) ==
    {c \in cn : ~(c[3] = dn /\ c[4] = da)} \cup {<<sn, sa, dn, da>>}

WeightAttr(k) == "driver_" \o ToString(k) \o "_weight"
VisibilityAttr(k) == "driver_" \o ToString(k) \o "_visibility"

-----------------------------------------------------------------------------
(* DriverRig / TargetRig *)

NoTarget == [control_set |-> "None", controls |-> <<>>, namespace |-> "", set |-> FALSE]

\* the sorted members of a control set, [] when the set does not exist
RigControls(control_set) ==
    IF control_set \in ObjectSets THEN SortedLower(SetMembers[control_set]) ELSE <<>>

DriverRig(control_set, weight) ==
    LET cs == RigControls(control_set)
    IN [control_set |-> control_set, weight |-> weight, muted |-> FALSE,
        controls |-> cs, namespace |-> NamespaceOf(cs)]

TargetRig(control_set) ==
    LET cs == RigControls(control_set)
    IN [control_set |-> control_set, controls |-> cs,
        namespace |-> NamespaceOf(cs), set |-> TRUE]

InSeq(x, seq) == \E i \in 1..Len(seq) : seq[i] = x

\* _get_driver_index_for_control: 0-based index of the first driver holding
\* the control, -1 for None
get_driver_index_for_control(drvs, driver_ctrl) ==
    IF \E i \in 1..Len(drvs) : InSeq(driver_ctrl, drvs[i].controls)
    THEN (CHOOSE i \in 1..Len(drvs) :
            /\ InSeq(driver_ctrl, drvs[i].controls)
            /\ \A j \in 1..(i - 1) : ~InSeq(driver_ctrl, drvs[j].controls)) - 1
    ELSE -1

\* the inner loop of auto_match_controls: the first control of the driver with
\* the target's stripped name, or None
FirstMatch(controls, target_name) ==
    IF \E i \in 1..Len(controls) : strip_ns(controls[i]) = target_name
    THEN controls[CHOOSE i \in 1..Len(controls) :
                    /\ strip_ns(controls[i]) = target_name
                    /\ \A j \in 1..(i - 1) : strip_ns(controls[j]) # target_name]
    ELSE "None"

\* the mapping auto_match_controls builds
AutoMatch(tgt, drvs) ==
    [t \in {tgt.controls[i] : i \in 1..Len(tgt.controls)} |->
        [k \in 1..Len(drvs) |-> FirstMatch(drvs[k].controls, strip_ns(t))]]

EmptyMapping == [t \in {} |-> <<>>]

-----------------------------------------------------------------------------
(* The blend graph builder.  A build threads a value                         *)
(*   W = [nodes, conn, cn, bn, exc, ovf, printed]                            *)
(* through the commands: the scene, the two tracking lists, whether the      *)
(* running try-block has raised, whether Maya's numbering left the modelled  *)
(* range, and the controls a "Warning: Could not ..." line was printed for.  *)
(* A command on a W that has raised does nothing.                            *)

TargetPlug(j) == "target[" \o ToString(j) \o "]"
TargetPlugs == {TargetPlug(j) : j \in 0..(MaxDrivers + 1)}
InputPlug(j) == "input1D[" \o ToString(j) \o "]"

ConstrainedAttr(kind) == IF kind = "point" THEN "translate" ELSE "rotate"
ConstraintOut(kind) == IF kind = "point" THEN "constraintTranslate" ELSE "constraintRotate"

\* the constraint nodes of this kind that drive control t
ConstraintsOn(cn, kind, t) ==
    {c[1] : c \in {x \in cn : x[2] = ConstraintOut(kind) /\ x[3] = t}}

\* the target list of a constraint node, in index order
ConstraintTargets(cn, kind, node) ==
    LET ts == {c \in cn : c[3] = node /\ c[2] = ConstrainedAttr(kind) /\ c[4] \in TargetPlugs}
    IN [j \in 1..Cardinality(ts) |->
          (CHOOSE c \in ts : c[4] = TargetPlug(j - 1))[1]]

RECURSIVE AppendNew(_, _)
\* a target list with the controls of `more` it does not hold yet
AppendNew(have, more) ==
    IF more = <<>> THEN have
    ELSE AppendNew(IF InSeq(Head(more), have) THEN have ELSE Append(have, Head(more)),
                   Tail(more))

\* does the constraint node have the weight attribute `name`
HasWeightPlug(cn, kind, node, name) ==
    LET ts == ConstraintTargets(cn, kind, node)
    IN \E j \in 1..Len(ts) : name = strip_ns(ts[j]) \o "W" \o ToString(j - 1)

Raise(W) == [W EXCEPT !.exc = TRUE]

\* `except Exception as e: print(f"Warning: Could not ... {target_ctrl}: {e}")`:
\* the exception of the try-block for control t ends there
Caught(W, t) ==
    [W EXCEPT !.exc = FALSE, !.printed = IF W.exc THEN @ \cup {t} ELSE @]

\* the node a constraint command on control t works on: the constraint the
\* control already has, or a new node of the given name
ConstraintNode(W, kind, t) ==
    IF ConstraintsOn(W.conn, kind, t) # {}
    THEN CHOOSE n \in ConstraintsOn(W.conn, kind, t) : TRUE
    ELSE UniqueName(W.nodes, IF kind = "point" THEN PointName(t) ELSE OrientName(t))

\* the target list the command leaves on `node`
ConstraintAll(W, kind, node, driver_ctrls) ==
    AppendNew(IF node \in W.nodes THEN ConstraintTargets(W.conn, kind, node) ELSE <<>>,
              driver_ctrls)

\* the scene and constraint_nodes once `node` constrains t to the controls of `all`
Constrained(W, kind, node, all, t) ==
    [W EXCEPT
       !.nodes = W.nodes \cup {node},
       !.conn = W.conn \cup {<<all[j], ConstrainedAttr(kind), node, TargetPlug(j - 1)>> :
                               j \in 1..Len(all)}
                       \cup {<<node, ConstraintOut(kind), t, ConstrainedAttr(kind)>>},
       !.cn = Append(W.cn, node)]

\* the command with its node chosen
ConstraintOn(W, locked, kind, driver_ctrls, t, node) ==
    IF W.exc THEN W
    ELSE IF \/ t \notin W.nodes
            \/ \E i \in 1..Len(driver_ctrls) : driver_ctrls[i] \notin W.nodes
            \/ InSeq(t, driver_ctrls)
            \/ <<t, ConstrainedAttr(kind)>> \in locked
         THEN Raise(W)
    ELSE IF node = "" THEN [W EXCEPT !.ovf = TRUE, !.exc = TRUE]
    ELSE Constrained(W, kind, node, ConstraintAll(W, kind, node, driver_ctrls), t)

\* cmds.pointConstraint / cmds.orientConstraint(driver_ctrls, target_ctrl,
\* maintainOffset=True, name=...) and the append to constraint_nodes.
\* A control that is already constrained keeps its node and gains the targets.
ConstraintCmd(W, locked, kind, driver_ctrls, t) ==
    ConstraintOn(W, locked, kind, driver_ctrls, t, ConstraintNode(W, kind, t))

\* connectAttr(locator.driver_k_weight, constraint.<ctrl>W<i>) for the driver
\* at position i; a control of no driver is passed over
ConnectWeight(W, nw, kind, node, driver_index, target_attr) ==
    IF driver_index = -1 THEN W
    ELSE IF ~(/\ Locator \in W.nodes
              /\ driver_index + 1 <= nw
              /\ HasWeightPlug(W.conn, kind, node, target_attr))
         THEN Raise(W)
    ELSE [W EXCEPT !.conn = ConnectForce(W.conn, Locator, WeightAttr(driver_index + 1),
                                         node, target_attr)]

RECURSIVE ConnectWeights(_, _, _, _, _, _, _)
\* the "Connect weight attributes" loop of _create_constraints_for_control,
\* from position i (1-based) of driver_ctrls; nw = weight scalars on the locator
ConnectWeights(W, drvs, nw, kind, node, driver_ctrls, i) ==
    IF W.exc \/ i > Len(driver_ctrls) THEN W
    ELSE ConnectWeights(
           ConnectWeight(W, nw, kind, node,
                         get_driver_index_for_control(drvs, driver_ctrls[i]),
                         strip_ns(driver_ctrls[i]) \o "W" \o ToString(i - 1)),
           drvs, nw, kind, node, driver_ctrls, i + 1)

\* the weight connections on the constraint the command has just appended
WeightsOf(W, drvs, nw, kind, driver_ctrls) ==
    IF W.exc THEN W
    ELSE ConnectWeights(W, drvs, nw, kind, Last(W.cn), driver_ctrls, 1)

\* one constraint and its weight connections
ConstraintAndWeights(W, drvs, nw, locked, kind, t, driver_ctrls) ==
    WeightsOf(ConstraintCmd(W, locked, kind, driver_ctrls, t), drvs, nw, kind, driver_ctrls)

\* a builder that makes the point constraint only
PointConstraintOnly(W, drvs, nw, locked, t, driver_ctrls) ==
    Caught(ConstraintAndWeights(W, drvs, nw, locked, "point", t, driver_ctrls), t)

\* _create_constraints_for_control: the exception ends the call, is printed,
\* and is not passed on
create_constraints_for_control(W, drvs, nw, locked, t, driver_ctrls) ==
    Caught(ConstraintAndWeights(
        ConstraintAndWeights(W, drvs, nw, locked, "point", t, driver_ctrls),
        drvs, nw, locked, "orient", t, driver_ctrls), t)

\* custom_attrs of _create_blend_connections_for_control
CustomAttrs(t, blacklist) ==
    LET Keep(a) == a \notin standard_attrs /\ ~InSeq(a, blacklist)
    IN SelectSeq(listAttr(t), Keep)

\* createNode('multiplyDivide') and the two appends
CreateMult(W, mult_node) ==
    [W EXCEPT !.nodes = W.nodes \cup {mult_node}, !.bn = Append(W.bn, mult_node)]

\* connectAttr driver.attr -> mult.input1X
ConnectInput1(W, strs, d, attr, mult_node) ==
    IF <<d, attr>> \in strs THEN Raise(W)
    ELSE [W EXCEPT !.conn = ConnectForce(W.conn, d, attr, mult_node, "input1X")]

\* connectAttr locator.driver_k_weight -> mult.input2X
ConnectInput2(W, nw, driver_index, mult_node) ==
    IF W.exc \/ driver_index = -1 THEN W
    ELSE IF ~(Locator \in W.nodes /\ driver_index + 1 <= nw) THEN Raise(W)
    ELSE [W EXCEPT !.conn = ConnectForce(W.conn, Locator, WeightAttr(driver_index + 1),
                                         mult_node, "input2X")]

\* the multiply node of one driver control with its two inputs
MultiplyNode(W, drvs, nw, strs, attr, d, mult_node) ==
    ConnectInput2(ConnectInput1(CreateMult(W, mult_node), strs, d, attr, mult_node),
                  nw, get_driver_index_for_control(drvs, d), mult_node)

RECURSIVE MultiplyLoop(_, _, _, _, _, _, _, _)
RECURSIVE MultiplyStep(_, _, _, _, _, _, _, _, _)
\* the loop over driver_ctrls for one attribute, from position i; `mults` is
\* multiply_nodes so far.  Returns [W, mults].
MultiplyLoop(W, mults, drvs, nw, strs, attr, driver_ctrls, i) ==
    IF W.exc \/ i > Len(driver_ctrls) THEN [W |-> W, mults |-> mults]
    ELSE IF driver_ctrls[i] \notin W.nodes THEN [W |-> Raise(W), mults |-> mults]
    ELSE IF ~attributeQuery(attr, driver_ctrls[i])
         THEN MultiplyLoop(W, mults, drvs, nw, strs, attr, driver_ctrls, i + 1)
    ELSE MultiplyStep(W, mults, drvs, nw, strs, attr, driver_ctrls, i,
                      UniqueName(W.nodes, MultBase(attr)))

\* one pass of the loop for a driver control that has the attribute
MultiplyStep(W, mults, drvs, nw, strs, attr, driver_ctrls, i, mult_node) ==
    IF mult_node = ""
    THEN [W |-> [W EXCEPT !.ovf = TRUE, !.exc = TRUE], mults |-> mults]
    ELSE MultiplyLoop(MultiplyNode(W, drvs, nw, strs, attr, driver_ctrls[i], mult_node),
                      Append(mults, mult_node), drvs, nw, strs, attr, driver_ctrls, i + 1)

\* the sum node fed by the multiply nodes and connected to the target attribute
SumInto(W, mults, attr, t, plus_node) ==
    IF plus_node = "" THEN [W EXCEPT !.ovf = TRUE, !.exc = TRUE]
    ELSE [W EXCEPT
            !.nodes = W.nodes \cup {plus_node},
            !.bn = Append(W.bn, plus_node),
            !.conn = ConnectForce(
                       W.conn \cup {<<mults[j], "outputX", plus_node, InputPlug(j - 1)>> :
                                      j \in 1..Len(mults)},
                       plus_node, "output1D", t, attr)]

\* a sum node for every attribute, fed or not
PlusAlways(W, mults, attr, t) ==
    IF W.exc THEN W
    ELSE SumInto(W, mults, attr, t, UniqueName(W.nodes, PlusBase(attr)))

\* "If we have multiply nodes, create plusMinusAverage to sum them"
PlusNode(W, mults, attr, t) ==
    IF W.exc \/ mults = <<>> THEN W
    ELSE SumInto(W, mults, attr, t, UniqueName(W.nodes, PlusBase(attr)))

\* the sum node after the multiply loop r = [W, mults]
PlusAfter(r, attr, t) == PlusNode(r.W, r.mults, attr, t)

RECURSIVE AttrLoop(_, _, _, _, _, _, _)
\* "Process each custom attribute"
AttrLoop(W, drvs, nw, strs, t, driver_ctrls, attrs) ==
    IF W.exc \/ attrs = <<>> THEN W
    ELSE AttrLoop(PlusAfter(MultiplyLoop(W, <<>>, drvs, nw, strs, Head(attrs),
                                         driver_ctrls, 1),
                            Head(attrs), t),
                  drvs, nw, strs, t, driver_ctrls, Tail(attrs))

\* _create_blend_connections_for_control
create_blend_connections_for_control(W, drvs, nw, strs, blacklist, t, driver_ctrls) ==
    Caught(IF t \notin W.nodes THEN Raise(W)
           ELSE AttrLoop(W, drvs, nw, strs, t, driver_ctrls, CustomAttrs(t, blacklist)),
           t)

\* `[ctrl for ctrl in driver_ctrls if ctrl is not None]`
ValidDrivers(driver_ctrls) ==
    LET Keep(c) == c # "None"
    IN SelectSeq(driver_ctrls, Keep)

\* the two builder calls for one control, as connect_rigs and apply_mapping make them
BuildControl(W, drvs, nw, locked, strs, blacklist, useCons, t, valid_drivers) ==
    create_blend_connections_for_control(
        IF useCons
        THEN create_constraints_for_control(W, drvs, nw, locked, t, valid_drivers)
        ELSE W,
        drvs, nw, strs, blacklist, t, valid_drivers)

\* control_mapping.get(t, [])
MappingGet(mapping, t) == IF t \in DOMAIN mapping THEN mapping[t] ELSE <<>>

RECURSIVE ConnectLoop(_, _, _, _, _, _, _, _, _)
\* a loop that ends at the first control an error was printed for
ConnectLoopAbort(W, drvs, nw, locked, strs, blacklist, useCons, mapping, ctrls) ==
    IF ctrls = <<>> \/ W.printed # {} THEN W
    ELSE ConnectLoop(
           IF ValidDrivers(MappingGet(mapping, Head(ctrls))) = <<>> THEN W
           ELSE BuildControl(W, drvs, nw, locked, strs, blacklist, useCons, Head(ctrls),
                             ValidDrivers(MappingGet(mapping, Head(ctrls)))),
           drvs, nw, locked, strs, blacklist, useCons, mapping, Tail(ctrls))

\* "Process each target control" of connect_rigs
ConnectLoop(W, drvs, nw, locked, strs, blacklist, useCons, mapping, ctrls) ==
    IF ctrls = <<>> THEN W
    ELSE ConnectLoop(
           IF ValidDrivers(MappingGet(mapping, Head(ctrls))) = <<>> THEN W
           ELSE BuildControl(W, drvs, nw, locked, strs, blacklist, useCons, Head(ctrls),
                             ValidDrivers(MappingGet(mapping, Head(ctrls)))),
           drvs, nw, locked, strs, blacklist, useCons, mapping, Tail(ctrls))

-----------------------------------------------------------------------------
(* The record of the latest call *)

\* op: the method; s: the session; index: the driver index of a solo, mute or
\* unmute that wrote; ret: what the call returned ("raise": it raised); was: the
\* weight scalar of the driver just before the mute_driver(index, True) that
\* this call is or directly follows (-1: none); skipped: the controls a
\* "Warning: Could not ..." line was printed for; swept: whether cleanup printed
\* its "Cleaned up ... remaining nodes" line
Call(op, s, index, ret, was) ==
    [op |-> op, s |-> s, index |-> index, ret |-> ret, was |-> was,
     skipped |-> {}, swept |-> FALSE]

\* weights a caller passes to add_driver (0.5 is the default of the parameter)
Weights == {5}

-----------------------------------------------------------------------------
(* RigConnector: rig membership and matching *)

\* set_target(control_set)
set_target(s, control_set) ==
    /\ target' = [target EXCEPT ![s] = TargetRig(control_set)]
    /\ last' = Call("set_target", s, 0,
                    IF Len(TargetRig(control_set).controls) > 0 THEN "True" ELSE "False", -1)
    /\ UNCHANGED <<drivers, control_locator, normalize_weights, use_constraints,
                   control_mapping, constraint_nodes, blend_nodes, blacklist_attrs,
                   mapping_rows, sceneVars, locked_attrs, string_attrs,
                   nodes_before_connect, config_file>>

\* add_driver that keeps the rig of a set without members
AddDriverAnyway(s, control_set, weight) ==
    LET driver == DriverRig(control_set, weight)
    IN /\ Len(drivers[s]) < MaxDrivers
       /\ drivers' = [drivers EXCEPT ![s] = Append(@, driver)]
       /\ last' = Call("add_driver", s, 0,
                       IF Len(driver.controls) > 0 THEN "True" ELSE "False", -1)
       /\ UNCHANGED <<target, control_locator, normalize_weights, use_constraints,
                      control_mapping, constraint_nodes, blend_nodes, blacklist_attrs,
                      mapping_rows, sceneVars, locked_attrs, string_attrs,
                      nodes_before_connect, config_file>>

\* add_driver(control_set, weight)
add_driver(s, control_set, weight) ==
    LET driver == DriverRig(control_set, weight)
    IN /\ Len(drivers[s]) < MaxDrivers
       /\ drivers' = [drivers EXCEPT ![s] =
                        IF Len(driver.controls) > 0 THEN Append(@, driver) ELSE @]
       /\ last' = Call("add_driver", s, 0,
                       IF Len(driver.controls) > 0 THEN "True" ELSE "False", -1)
       /\ UNCHANGED <<target, control_locator, normalize_weights, use_constraints,
                      control_mapping, constraint_nodes, blend_nodes, blacklist_attrs,
                      mapping_rows, sceneVars, locked_attrs, string_attrs,
                      nodes_before_connect, config_file>>

\* `del seq[index]`, index 0-based
DelAt(seq, index) ==
    [j \in 1..(Len(seq) - 1) |-> IF j <= index THEN seq[j] ELSE seq[j + 1]]

\* remove_driver(index)
remove_driver(s, index) ==
    LET ok == 0 <= index /\ index < Len(drivers[s])
    IN /\ drivers' = [drivers EXCEPT ![s] = IF ok THEN DelAt(@, index) ELSE @]
       /\ last' = Call("remove_driver", s, 0, IF ok THEN "True" ELSE "False", -1)
       /\ UNCHANGED <<target, control_locator, normalize_weights, use_constraints,
                      control_mapping, constraint_nodes, blend_nodes, blacklist_attrs,
                      mapping_rows, sceneVars, locked_attrs, string_attrs,
                      nodes_before_connect, config_file>>

\* what auto_match_controls leaves in control_mapping
AutoMatched(tgt, drvs, mapping) ==
    IF ~tgt.set \/ drvs = <<>> THEN mapping ELSE AutoMatch(tgt, drvs)

\* auto_match_controls()
auto_match_controls(s) ==
    /\ control_mapping' = [control_mapping EXCEPT ![s] =
                             AutoMatched(target[s], drivers[s], @)]
    /\ last' = Call("auto_match_controls", s, 0, "None", -1)
    /\ UNCHANGED <<target, drivers, control_locator, normalize_weights, use_constraints,
                   constraint_nodes, blend_nodes, blacklist_attrs,
                   mapping_rows, sceneVars, locked_attrs, string_attrs,
                   nodes_before_connect, config_file>>

-----------------------------------------------------------------------------
(* RigConnector: connect_rigs *)

\* the names Maya can give a node created as rig_connector_CTRL
ControllerNames == {Numbered(Locator, k) : k \in 0..MaxSuffix}

\* the shape node of a locator
ShapeOf(name) ==
    IF name = Locator THEN LocatorShape
    ELSE IF name = "" THEN ""
    ELSE "rig_connector_CTRLShape" \o
         ToString(CHOOSE k \in 1..MaxSuffix : Numbered(Locator, k) = name)

\* cmds.spaceLocator(name="rig_connector_CTRL"): a transform and its shape
SpaceLocator(sc) ==
    [sc EXCEPT !.nodes = @ \cup {UniqueName(sc.nodes, Locator),
                                  ShapeOf(UniqueName(sc.nodes, Locator))}]

\* a create_blend_controller that leaves the controller it finds
KeepStaleController(sc) == SpaceLocator(sc)

\* create_blend_controller: the scene after the stale controller is deleted
\* and the locator is made
BlendController(sc) ==
    SpaceLocator(IF Locator \in sc.nodes THEN DeleteNodes(sc, {Locator}) ELSE sc)

\* the driver_k_weight scalars create_blend_controller adds: defaultValue=driver.weight
ControllerWeights(drvs) == [k \in 1..Len(drvs) |-> drvs[k].weight]

GeometryOf(namespace) == namespace \o ":Geometry"

\* _connect_visibility_toggles
connect_visibility_toggles(cn, ns, tgt, drvs) ==
    LET c1 == IF tgt.set /\ tgt.namespace # "" /\ GeometryOf(tgt.namespace) \in ns
              THEN ConnectForce(cn, Locator, "target_visibility",
                                GeometryOf(tgt.namespace), "visibility")
              ELSE cn
        F[k \in 0..Len(drvs)] ==
            IF k = 0 THEN c1
            ELSE IF drvs[k].namespace # "" /\ GeometryOf(drvs[k].namespace) \in ns
                 THEN ConnectForce(F[k - 1], Locator, VisibilityAttr(k),
                                   GeometryOf(drvs[k].namespace), "visibility")
                 ELSE F[k - 1]
    IN F[Len(drvs)]

\* _select_target_rig: the selection it leaves
select_target_rig(sel, ns, tgt) ==
    IF ~tgt.set \/ tgt.namespace = "" THEN sel
    ELSE LET tops == <<tgt.namespace \o ":Main", tgt.namespace \o ":Root",
                       tgt.namespace \o ":Global", tgt.namespace \o ":Geometry">>
         IN IF \E i \in 1..4 : tops[i] \in ns
            THEN <<tops[CHOOSE i \in 1..4 : tops[i] \in ns /\ \A j \in 1..(i - 1) : tops[j] \notin ns]>>
            ELSE <<Locator>>

\* the builder's value over a scene, nothing tracked yet
Untracked(sc) ==
    [nodes |-> sc.nodes, conn |-> sc.conn, cn |-> <<>>, bn |-> <<>>,
     exc |-> FALSE, ovf |-> FALSE, printed |-> {}]

\* create_blend_controller and the loop over the target's controls, in the
\* scene as it is, with the given locked plugs and non-numeric attributes
BuildIn(locked, strs, tgt, drvs, blacklist, useCons, mapping) ==
    ConnectLoop(Untracked(BlendController([nodes |-> nodes, conn |-> conn])),
                drvs, Len(drvs), locked, strs, blacklist, useCons, mapping, tgt.controls)

\* the build of connect_rigs, from create_blend_controller to the end of the loop
ConnectBuild(tgt, drvs, blacklist, useCons, mapping) ==
    BuildIn(locked_attrs, string_attrs, tgt, drvs, blacklist, useCons, mapping)

\* the value connect_rigs returns once it has built
ConnectReturn(W) == "True"

\* what connect_rigs leaves once the loop has built W
ConnectDone(s, tgt, drvs, mapping, W) ==
    /\ ~W.ovf
    /\ control_mapping' = [control_mapping EXCEPT ![s] = mapping]
    /\ control_locator' = [control_locator EXCEPT ![s] = Locator]
    /\ constraint_nodes' = [constraint_nodes EXCEPT ![s] = W.cn]
    /\ blend_nodes' = [blend_nodes EXCEPT ![s] = W.bn]
    /\ nodes' = W.nodes
    /\ conn' = connect_visibility_toggles(W.conn, W.nodes, tgt, drvs)
    /\ weight_attrs' = ControllerWeights(drvs)
    /\ selection' = select_target_rig(selection, W.nodes, tgt)
    /\ nodes_before_connect' = [nodes_before_connect EXCEPT ![s] = nodes]
    /\ last' = [Call("connect_rigs", s, 0, ConnectReturn(W), -1) EXCEPT !.skipped = W.printed]

\* connect_rigs from "Auto-match if no mapping exists" on
ConnectWith(s, tgt, drvs, blacklist, useCons, mapping) ==
    ConnectDone(s, tgt, drvs, mapping, ConnectBuild(tgt, drvs, blacklist, useCons, mapping))

\* connect_rigs() that asks for a target only
ConnectWithoutDrivers(s) ==
    IF ~target[s].set
    THEN /\ last' = Call("connect_rigs", s, 0, "False", -1)
         /\ UNCHANGED <<sessionVars, mapping_rows, sceneVars, locked_attrs, string_attrs,
                        nodes_before_connect, config_file>>
    ELSE /\ ConnectWith(s, target[s], drivers[s], blacklist_attrs[s], use_constraints[s],
                        IF control_mapping[s] = EmptyMapping
                        THEN AutoMatched(target[s], drivers[s], control_mapping[s])
                        ELSE control_mapping[s])
         /\ UNCHANGED <<target, drivers, normalize_weights, use_constraints,
                        blacklist_attrs, mapping_rows, geo_visibility,
                        locked_attrs, string_attrs, config_file>>

\* connect_rigs()
connect_rigs(s) ==
    IF ~target[s].set \/ drivers[s] = <<>>
    THEN /\ last' = Call("connect_rigs", s, 0, "False", -1)
         /\ UNCHANGED <<sessionVars, mapping_rows, sceneVars, locked_attrs, string_attrs,
                        nodes_before_connect, config_file>>
    ELSE /\ ConnectWith(s, target[s], drivers[s], blacklist_attrs[s], use_constraints[s],
                        IF control_mapping[s] = EmptyMapping
                        THEN AutoMatched(target[s], drivers[s], control_mapping[s])
                        ELSE control_mapping[s])
         /\ UNCHANGED <<target, drivers, normalize_weights, use_constraints,
                        blacklist_attrs, mapping_rows, geo_visibility,
                        locked_attrs, string_attrs, config_file>>

-----------------------------------------------------------------------------
(* RigConnector: solo, mute, cleanup *)

SeqToSet(seq) == {seq[i] : i \in 1..Len(seq)}

\* the weight scalars that exist on the controller node
LiveWeights(ns, w) == IF Locator \in ns THEN Len(w) ELSE 0

\* a solo that writes 1.0 to every driver
SoloAll(i, index) == 10

\* `value = 1.0 if i == index else 0.0`, i and index 0-based
SoloValue(i, index) == IF i = index THEN 10 ELSE 0

\* solo_driver(index): setAttr raises at the first driver without a scalar
solo_driver(s, index) ==
    LET n == Len(drivers[s])
        m == LiveWeights(nodes, weight_attrs)
        done == IF n < m THEN n ELSE m
    IN IF control_locator[s] = "None"
       THEN /\ last' = Call("solo_driver", s, 0, "None", -1)
            /\ UNCHANGED <<sessionVars, mapping_rows, sceneVars, locked_attrs,
                           string_attrs, nodes_before_connect, config_file>>
       ELSE /\ weight_attrs' = [k \in 1..Len(weight_attrs) |->
                                  IF k <= done THEN SoloValue(k - 1, index)
                                  ELSE weight_attrs[k]]
            /\ last' = Call("solo_driver", s, index, IF n > m THEN "raise" ELSE "None", -1)
            /\ UNCHANGED <<sessionVars, mapping_rows, nodes, conn, geo_visibility,
                           selection, locked_attrs, string_attrs, nodes_before_connect, config_file>>

\* `0.0 if mute else self.drivers[index].weight`
MuteValue(driver, mute) == IF mute THEN 0 ELSE driver.weight

\* mute_driver(index, mute)
mute_driver(s, index, mute) ==
    LET inRange == 0 <= index /\ index < Len(drivers[s])
        writes == inRange /\ control_locator[s] # "None"
        hasPlug == index + 1 <= LiveWeights(nodes, weight_attrs)
    IN /\ drivers' = [drivers EXCEPT ![s] =
                        IF inRange THEN [@ EXCEPT ![index + 1].muted = mute] ELSE @]
       /\ weight_attrs' = IF writes /\ hasPlug
                          THEN [weight_attrs EXCEPT ![index + 1] =
                                  MuteValue(drivers[s][index + 1], mute)]
                          ELSE weight_attrs
       /\ last' = Call(IF mute THEN "mute_driver" ELSE "unmute_driver", s, index,
                       IF writes /\ ~hasPlug THEN "raise" ELSE "None",
                       IF writes /\ hasPlug
                       THEN IF mute THEN weight_attrs[index + 1]
                            ELSE IF last.op = "mute_driver" /\ last.s = s /\ last.index = index
                                 THEN last.was ELSE -1
                       ELSE -1)
       /\ UNCHANGED <<target, control_locator, normalize_weights, use_constraints,
                      control_mapping, constraint_nodes, blend_nodes, blacklist_attrs,
                      mapping_rows, nodes, conn, geo_visibility, selection,
                      locked_attrs, string_attrs, nodes_before_connect, config_file>>

\* is the session's controller node in the scene
LocatorLive(s) == control_locator[s] # "None" /\ control_locator[s] \in nodes

\* the Geometry nodes cleanup looks at: the target's and every driver's
SessionGeometry(s) ==
    {g \in nodes :
        \/ target[s].set /\ target[s].namespace # "" /\ g = GeometryOf(target[s].namespace)
        \/ \E k \in 1..Len(drivers[s]) :
              drivers[s][k].namespace # "" /\ g = GeometryOf(drivers[s][k].namespace)}

\* the visibility connections cleanup breaks: those whose source plug holds
\* 'rig_connector_CTRL'
VisibilityLinks(s) ==
    IF LocatorLive(s)
    THEN {c \in conn : /\ c[3] \in SessionGeometry(s)
                       /\ c[4] = "visibility"
                       /\ c[1] \in {Locator, LocatorShape}}
    ELSE {}

\* the nodes cleanup deletes by its tracking: constraint_nodes, blend_nodes and
\* control_locator, each only if it exists
TrackedNodes(s) ==
    {n \in SeqToSet(constraint_nodes[s]) \cup SeqToSet(blend_nodes[s]) : n \in nodes}
    \cup (IF LocatorLive(s) THEN {control_locator[s]} ELSE {})

\* a cleanup whose closing sweep finds nothing
NoSweep(ns) == {}

\* a sweep that also takes the controls of the rigs
SweepControls(ns) == Tagged(ns) \cup (ns \cap Controls)

\* "Find and clean any remaining rig_connector nodes"
SweepNodes(ns) == Tagged(ns)

\* the scene once cleanup has deleted what the session tracks
TrackedGone(s) ==
    DeleteNodes([nodes |-> nodes, conn |-> conn \ VisibilityLinks(s)], TrackedNodes(s))

\* a cleanup that breaks the visibility connections and deletes nothing
DisconnectOnly(s) == [nodes |-> nodes, conn |-> conn \ VisibilityLinks(s)]

\* the scene cleanup leaves
CleanupScene(s) == DeleteNodes(TrackedGone(s), SweepNodes(TrackedGone(s).nodes))

\* what cleanup() leaves of the session's tracking and of the scene, sc being
\* the scene its deletions leave and `curves` the animation curves a bake
\* has just added (cleanup touches none of them)
CleanupTo(s, sc, curves) ==
    /\ nodes' = sc.nodes \cup curves
    /\ conn' = sc.conn
    /\ geo_visibility' = [g \in DOMAIN geo_visibility |->
                            IF \E c \in VisibilityLinks(s) : c[3] = g
                            THEN TRUE ELSE geo_visibility[g]]
    /\ weight_attrs' = IF Locator \in sc.nodes THEN weight_attrs ELSE <<>>
    /\ constraint_nodes' = [constraint_nodes EXCEPT ![s] = <<>>]
    /\ blend_nodes' = [blend_nodes EXCEPT ![s] = <<>>]
    /\ control_locator' = [control_locator EXCEPT ![s] = "None"]

\* cleanup()
cleanup(s) ==
    /\ CleanupTo(s, CleanupScene(s), {})
    /\ last' = [Call("cleanup", s, 0, "None", -1)
                  EXCEPT !.swept = SweepNodes(TrackedGone(s).nodes) # {}]
    /\ UNCHANGED <<target, drivers, normalize_weights, use_constraints,
                   control_mapping, blacklist_attrs, mapping_rows, selection,
                   locked_attrs, string_attrs, nodes_before_connect, config_file>>

-----------------------------------------------------------------------------
(* RigConnector: bake_and_cleanup *)

\* the bake_set arguments of a caller: none, the target's set, a set without
\* members, the name of no node
BakeSets == {"None", "tgt:ControlSet", "emptySet", "noSuchSet"}

\* "Determine which controls to bake"
ControlsToBake(tgt, ns, bake_set) ==
    IF bake_set # "None" /\ bake_set \in ns
    THEN RigControls(bake_set)
    ELSE tgt.controls

\* the animation curves cmds.bakeResults creates for the controls
AnimCurves(controls) ==
    {controls[i] \o "_" \o a : i \in 1..Len(controls), a \in {"translate", "rotate"}}

\* bake_and_cleanup(bake_set): the two early returns leave everything as it
\* is; else the bake, cleanup() and the cleared selection
bake_and_cleanup(s, bake_set) ==
    IF ~target[s].set \/ ControlsToBake(target[s], nodes, bake_set) = <<>>
    THEN /\ last' = Call("bake_and_cleanup", s, 0, "None", -1)
         /\ UNCHANGED <<sessionVars, mapping_rows, sceneVars, locked_attrs, string_attrs,
                        nodes_before_connect, config_file>>
    ELSE /\ CleanupTo(s, CleanupScene(s),
                      AnimCurves(ControlsToBake(target[s], nodes, bake_set)))
         /\ selection' = <<>>
         /\ last' = [Call("bake_and_cleanup", s, 0, "None", -1)
                       EXCEPT !.swept = SweepNodes(TrackedGone(s).nodes) # {}]
         /\ UNCHANGED <<target, drivers, normalize_weights, use_constraints,
                        control_mapping, blacklist_attrs, mapping_rows,
                        locked_attrs, string_attrs, nodes_before_connect, config_file>>

-----------------------------------------------------------------------------
(* RigConnector: save_config, load_config *)

\* the dictionary save_config dumps
ConfigOf(s) ==
    [target |-> IF target[s].set THEN target[s].control_set ELSE "None",
     drivers |-> [k \in 1..Len(drivers[s]) |-> drivers[s][k].control_set],
     weights |-> [k \in 1..Len(drivers[s]) |-> drivers[s][k].weight],
     normalize_weights |-> normalize_weights[s],
     use_constraints |-> use_constraints[s],
     control_mapping |-> control_mapping[s],
     blacklist_attrs |-> blacklist_attrs[s]]

\* the names a configuration can hold: control sets, controls, attributes
ConfigNames == ObjectSets \cup Controls \cup CustomAttrNames

\* json.dump of a name or None: None is written null, a str between quotes
JsonToken(v) == IF v = "None" THEN "null" ELSE "\"" \o v \o "\""

\* a reader that takes null for a name
PyValueKeepsNull(j) ==
    IF \E v \in ConfigNames : JsonToken(v) = j
    THEN CHOOSE v \in ConfigNames : JsonToken(v) = j
    ELSE j

\* json.load of a token: null is None, a quoted text the str it quotes
PyValue(j) ==
    IF j = "null" THEN "None"
    ELSE IF \E v \in ConfigNames : JsonToken(v) = j
         THEN CHOOSE v \in ConfigNames : JsonToken(v) = j
         ELSE j

\* json.dump(config, f): numbers and booleans are written as they are, dicts
\* and lists keep their order
JsonDump(config) ==
    [target |-> JsonToken(config.target),
     drivers |-> [k \in 1..Len(config.drivers) |-> JsonToken(config.drivers[k])],
     weights |-> config.weights,
     normalize_weights |-> config.normalize_weights,
     use_constraints |-> config.use_constraints,
     control_mapping |-> [t \in {JsonToken(c) : c \in DOMAIN config.control_mapping} |->
                            [k \in 1..Len(config.control_mapping[PyValue(t)]) |->
                               JsonToken(config.control_mapping[PyValue(t)][k])]],
     blacklist_attrs |-> [k \in 1..Len(config.blacklist_attrs) |->
                            JsonToken(config.blacklist_attrs[k])]]

\* json.load(f) of a file json.dump wrote
JsonLoad(file) ==
    [target |-> PyValue(file.target),
     drivers |-> [k \in 1..Len(file.drivers) |-> PyValue(file.drivers[k])],
     weights |-> file.weights,
     normalize_weights |-> file.normalize_weights,
     use_constraints |-> file.use_constraints,
     control_mapping |-> [t \in {PyValue(j) : j \in DOMAIN file.control_mapping} |->
                            [k \in 1..Len(file.control_mapping[JsonToken(t)]) |->
                               PyValue(file.control_mapping[JsonToken(t)][k])]],
     blacklist_attrs |-> [k \in 1..Len(file.blacklist_attrs) |->
                            PyValue(file.blacklist_attrs[k])]]

\* a path that holds no file
NoFile == [target |-> "absent", drivers |-> <<>>, weights |-> <<>>,
           normalize_weights |-> TRUE, use_constraints |-> TRUE,
           control_mapping |-> EmptyMapping, blacklist_attrs |-> <<>>]

\* a file that is no JSON text
Unparseable == [NoFile EXCEPT !.target = "unparseable"]

\* save_config(filepath)
save_config(s) ==
    /\ config_file' = JsonDump(ConfigOf(s))
    /\ last' = Call("save_config", s, 0, "None", -1)
    /\ UNCHANGED <<sessionVars, mapping_rows, sceneVars, locked_attrs, string_attrs,
                   nodes_before_connect>>

RECURSIVE LoadDrivers(_, _, _, _)
\* "Load drivers": add_driver for each set of the file, from position i
LoadDrivers(drvs, sets, weights, i) ==
    IF i > Len(sets) THEN drvs
    ELSE LET weight == IF i <= Len(weights) THEN weights[i] ELSE 5
             driver == DriverRig(sets[i], weight)
         IN LoadDrivers(IF Len(driver.controls) > 0 THEN Append(drvs, driver) ELSE drvs,
                        sets, weights, i + 1)

\* a load that empties the driver list before it looks at the file
FailedLoadClears(s, ret) ==
    /\ drivers' = [drivers EXCEPT ![s] = <<>>]
    /\ last' = Call("load_config", s, 0, ret, -1)
    /\ UNCHANGED <<target, control_locator, normalize_weights, use_constraints,
                   control_mapping, constraint_nodes, blend_nodes, blacklist_attrs,
                   mapping_rows, sceneVars, locked_attrs, string_attrs,
                   nodes_before_connect, config_file>>

\* load_config before "Clear current setup": the path holds no file (return
\* False) or json.load raises
FailedLoad(s, ret) ==
    /\ last' = Call("load_config", s, 0, ret, -1)
    /\ UNCHANGED <<sessionVars, mapping_rows, sceneVars, locked_attrs, string_attrs,
                   nodes_before_connect, config_file>>

\* a load that starts the session over: it forgets the blend it has built
LoadedForgets(s, config) ==
    /\ drivers' = [drivers EXCEPT ![s] =
                     LoadDrivers(<<>>, config.drivers, config.weights, 1)]
    /\ target' = [target EXCEPT ![s] =
                    IF config.target # "None" THEN TargetRig(config.target) ELSE @]
    /\ normalize_weights' = [normalize_weights EXCEPT ![s] = config.normalize_weights]
    /\ use_constraints' = [use_constraints EXCEPT ![s] = config.use_constraints]
    /\ control_mapping' = [control_mapping EXCEPT ![s] = config.control_mapping]
    /\ blacklist_attrs' = [blacklist_attrs EXCEPT ![s] = config.blacklist_attrs]
    /\ control_locator' = [control_locator EXCEPT ![s] = "None"]
    /\ constraint_nodes' = [constraint_nodes EXCEPT ![s] = <<>>]
    /\ blend_nodes' = [blend_nodes EXCEPT ![s] = <<>>]
    /\ last' = Call("load_config", s, 0, "True", -1)
    /\ UNCHANGED <<mapping_rows, sceneVars, locked_attrs, string_attrs,
                   nodes_before_connect, config_file>>

\* load_config from "Clear current setup" on, config being what json.load gave
Loaded(s, config) ==
    /\ drivers' = [drivers EXCEPT ![s] =
                     LoadDrivers(<<>>, config.drivers, config.weights, 1)]
    /\ target' = [target EXCEPT ![s] =
                    IF config.target # "None" THEN TargetRig(config.target) ELSE @]
    /\ normalize_weights' = [normalize_weights EXCEPT ![s] = config.normalize_weights]
    /\ use_constraints' = [use_constraints EXCEPT ![s] = config.use_constraints]
    /\ control_mapping' = [control_mapping EXCEPT ![s] = config.control_mapping]
    /\ blacklist_attrs' = [blacklist_attrs EXCEPT ![s] = config.blacklist_attrs]
    /\ last' = Call("load_config", s, 0, "True", -1)
    /\ UNCHANGED <<control_locator, constraint_nodes, blend_nodes, mapping_rows,
                   sceneVars, locked_attrs, string_attrs, nodes_before_connect,
                   config_file>>

\* load_config(filepath)
load_config(s) ==
    IF config_file = NoFile THEN FailedLoad(s, "False")
    ELSE IF config_file = Unparseable THEN FailedLoad(s, "raise")
    ELSE Loaded(s, JsonLoad(config_file))

-----------------------------------------------------------------------------
(* ControlMappingUI: the mapping window of a session *)

\* the text _build_mapping_rows puts in a driver field
DisplayOf(ns, driver_ctrl) ==
    IF driver_ctrl # "None" /\ driver_ctrl # "" /\ driver_ctrl \in ns
    THEN strip_ns(driver_ctrl) ELSE "MISSING"

\* a row's rowLayout has a column per driver: a slot list longer than the
\* drivers gets a field too many, and the layout refuses it (RuntimeError)
RowsRaise(mapping, num_drivers) ==
    \E t \in DOMAIN mapping : Len(mapping[t]) > num_drivers

\* _build_mapping_rows: one row per entry of control_mapping, up to the first
\* row the layout refuses
BuildRows(ns, mapping, num_drivers) ==
    LET keys == SortedLower(DOMAIN mapping)
        good == {r \in 1..Len(keys) : \A q \in 1..r : Len(mapping[keys[q]]) <= num_drivers}
    IN [r \in 1..Cardinality(good) |->
          [target_ctrl |-> keys[r],
           driver_fields |-> [i \in 1..Len(mapping[keys[r]]) |->
                                DisplayOf(ns, mapping[keys[r]][i])]]]

\* what a call that builds the rows returns
RowsReturn(mapping, num_drivers) ==
    IF RowsRaise(mapping, num_drivers) THEN "raise" ELSE "None"

\* ControlMappingUI.create_ui(): the window is built for the session's mapping
create_ui(s) ==
    /\ mapping_rows' = [mapping_rows EXCEPT
                          ![s] = BuildRows(nodes, control_mapping[s], Len(drivers[s]))]
    /\ last' = Call("create_ui", s, 0, RowsReturn(control_mapping[s], Len(drivers[s])), -1)
    /\ UNCHANGED <<sessionVars, sceneVars, locked_attrs, string_attrs,
                   nodes_before_connect, config_file>>

\* auto_match_all, a button of a window that shows rows: "Re-run auto
\* matching" and rebuild the rows
auto_match_all(s) ==
    LET mapping == AutoMatched(target[s], drivers[s], control_mapping[s])
    IN /\ mapping_rows[s] # <<>>
       /\ control_mapping' = [control_mapping EXCEPT ![s] = mapping]
       /\ mapping_rows' = [mapping_rows EXCEPT
                             ![s] = BuildRows(nodes, mapping, Len(drivers[s]))]
       /\ last' = Call("auto_match_all", s, 0, RowsReturn(mapping, Len(drivers[s])), -1)
       /\ UNCHANGED <<target, drivers, control_locator, normalize_weights,
                      use_constraints, constraint_nodes, blend_nodes, blacklist_attrs,
                      sceneVars, locked_attrs, string_attrs, nodes_before_connect,
                      config_file>>

\* clear_all, a button of a window that shows rows: every slot list becomes
\* [None] * len(drivers)
clear_all(s) ==
    LET mapping == [t \in DOMAIN control_mapping[s] |->
                      [k \in 1..Len(drivers[s]) |-> "None"]]
    IN /\ mapping_rows[s] # <<>>
       /\ control_mapping' = [control_mapping EXCEPT ![s] = mapping]
       /\ mapping_rows' = [mapping_rows EXCEPT
                             ![s] = BuildRows(nodes, mapping, Len(drivers[s]))]
       /\ last' = Call("clear_all", s, 0, "None", -1)
       /\ UNCHANGED <<target, drivers, control_locator, normalize_weights,
                      use_constraints, constraint_nodes, blend_nodes, blacklist_attrs,
                      sceneVars, locked_attrs, string_attrs, nodes_before_connect,
                      config_file>>

\* the control a driver field names (apply_mapping, "Read driver fields");
\* i is the 1-based position of the field, which must have a driver
ParseField(ns, drvs, i, driver_display) ==
    IF driver_display = "MISSING" \/ driver_display = "" THEN "None"
    ELSE LET driver == drvs[i]
             found == FirstMatch(driver.controls, driver_display)
             full_name == IF driver.namespace # ""
                          THEN driver.namespace \o ":" \o driver_display
                          ELSE driver_display
         IN IF found # "None" THEN found
            ELSE IF full_name \in ns THEN full_name
            ELSE "None"

\* does reading this row index a driver that is not there (IndexError)
RowRaises(drvs, row) ==
    \E i \in 1..Len(row.driver_fields) :
        /\ row.driver_fields[i] \notin {"MISSING", ""}
        /\ i > Len(drvs)

\* "Read new mappings from UI": the mapping after the rows up to the first
\* raising one have been read
ReadRows(ns, drvs, mapping, rows) ==
    LET good == {r \in 1..Len(rows) : \A q \in 1..r : ~RowRaises(drvs, rows[q])}
        read == {rows[r].target_ctrl : r \in good}
        RowOf(t) == rows[CHOOSE r \in good : rows[r].target_ctrl = t]
    IN [t \in DOMAIN mapping \cup read |->
          IF t \in read
          THEN [i \in 1..Len(RowOf(t).driver_fields) |->
                  ParseField(ns, drvs, i, RowOf(t).driver_fields[i])]
          ELSE mapping[t]]

\* cmds.objectType(n) is a constraint type
IsConstraint(n) == n \in ConstraintNames

\* _remove_constraints_for_control: the tagged constraints connected to the control
ConstraintsToRemove(sc, t) ==
    {n \in sc.nodes :
        /\ IsConstraint(n)
        /\ HasTag(n)
        /\ \E c \in sc.conn : (c[1] = n /\ c[3] = t) \/ (c[1] = t /\ c[3] = n)}

\* list.remove(x) for every x of a set: the first occurrence of each goes
RECURSIVE RemoveFirst(_, _)
RemoveFirst(seq, x) ==
    IF seq = <<>> THEN <<>>
    ELSE IF Head(seq) = x THEN Tail(seq)
    ELSE <<Head(seq)>> \o RemoveFirst(Tail(seq), x)

RECURSIVE RemoveAll(_, _)
RemoveAll(seq, S) ==
    IF S = {} THEN seq
    ELSE LET x == CHOOSE y \in S : TRUE
         IN RemoveAll(RemoveFirst(seq, x), S \ {x})

\* _remove_blend_connections_for_control: the tagged nodes with a plug that
\* feeds a custom attribute of the control
BlendsToRemove(sc, t) ==
    {c[1] : c \in {x \in sc.conn :
                     /\ x[3] = t
                     /\ InSeq(x[4], CustomAttrs(t, <<>>))
                     /\ HasTag(x[1])}}

\* delete the nodes of `gone` and drop each from the constraint list
DropConstraints(W, gone) == [DeleteNodes(W, gone) EXCEPT !.cn = RemoveAll(W.cn, gone)]

\* delete the nodes of `gone` and drop each from the blend list
DropBlends(W, gone) == [DeleteNodes(W, gone) EXCEPT !.bn = RemoveAll(W.bn, gone)]

\* _remove_blend_connections_for_control on the scene W
remove_blend_connections_for_control(W, t) == DropBlends(W, BlendsToRemove(W, t))

\* the two removals of apply_mapping for one control
RemoveControl(W, t) ==
    remove_blend_connections_for_control(DropConstraints(W, ConstraintsToRemove(W, t)), t)

\* the rebuild of one changed control: remove, then build if it has drivers
Reconnect(W, drvs, nw, locked, strs, blacklist, useCons, t, valid_drivers) ==
    IF valid_drivers = <<>> THEN RemoveControl(W, t)
    ELSE BuildControl(RemoveControl(W, t), drvs, nw, locked, strs, blacklist, useCons, t,
                      valid_drivers)

RECURSIVE ReconnectLoop(_, _, _, _, _, _, _, _, _, _)
\* a loop that rebuilds every control, changed or not
ReconnectEvery(W, drvs, nw, locked, strs, blacklist, useCons, old_mapping, mapping, ctrls) ==
    IF ctrls = <<>> THEN W
    ELSE ReconnectLoop(
           Reconnect(W, drvs, nw, locked, strs, blacklist, useCons, Head(ctrls),
                     ValidDrivers(mapping[Head(ctrls)])),
           drvs, nw, locked, strs, blacklist, useCons, old_mapping, mapping, Tail(ctrls))

\* "Reconnect changed controls"
ReconnectLoop(W, drvs, nw, locked, strs, blacklist, useCons, old_mapping, mapping, ctrls) ==
    IF ctrls = <<>> THEN W
    ELSE ReconnectLoop(
           IF MappingGet(old_mapping, Head(ctrls)) # mapping[Head(ctrls)]
           THEN Reconnect(W, drvs, nw, locked, strs, blacklist, useCons, Head(ctrls),
                          ValidDrivers(mapping[Head(ctrls)]))
           ELSE W,
           drvs, nw, locked, strs, blacklist, useCons, old_mapping, mapping, Tail(ctrls))

\* the texts a user types into a driver field
FieldTexts == {"MISSING", "arm", "leg", "hand"}

\* the controller apply_mapping works with: the session's, or the scene's
\* 'rig_connector_CTRL' when the session has none
AdoptedLocator(s) ==
    IF control_locator[s] = "None" /\ Locator \in nodes THEN Locator ELSE control_locator[s]

\* the session's tracking and the scene, as the builder's value
Tracked(s) ==
    [nodes |-> nodes, conn |-> conn, cn |-> constraint_nodes[s],
     bn |-> blend_nodes[s], exc |-> FALSE, ovf |-> FALSE, printed |-> {}]

\* the scene apply_mapping leaves for the mapping it has read
ApplyBuild(s, raises, mapping) ==
    IF raises \/ AdoptedLocator(s) = "None" \/ AdoptedLocator(s) \notin nodes
    THEN Tracked(s)
    ELSE ReconnectLoop(Tracked(s), drivers[s], LiveWeights(nodes, weight_attrs),
                       locked_attrs, string_attrs, blacklist_attrs[s],
                       use_constraints[s], control_mapping[s], mapping,
                       SortedLower(DOMAIN mapping))

\* what apply_mapping leaves once the loop has built W
ApplyDone(s, rows, raises, mapping, W) ==
    /\ ~W.ovf
    /\ mapping_rows' = [mapping_rows EXCEPT ![s] = rows]
    /\ control_mapping' = [control_mapping EXCEPT ![s] = mapping]
    /\ control_locator' = [control_locator EXCEPT
                             ![s] = IF raises THEN @ ELSE AdoptedLocator(s)]
    /\ constraint_nodes' = [constraint_nodes EXCEPT ![s] = W.cn]
    /\ blend_nodes' = [blend_nodes EXCEPT ![s] = W.bn]
    /\ nodes' = W.nodes
    /\ conn' = W.conn
    /\ last' = [Call("apply_mapping", s, 0, IF raises THEN "raise" ELSE "None", -1)
                  EXCEPT !.skipped = W.printed]

\* apply_mapping with the fields as the user left them
ApplyRead(s, rows, raises, mapping) ==
    ApplyDone(s, rows, raises, mapping, ApplyBuild(s, raises, mapping))

ApplyRows(s, rows) ==
    ApplyRead(s, rows, \E q \in 1..Len(rows) : RowRaises(drivers[s], rows[q]),
              ReadRows(nodes, drivers[s], control_mapping[s], rows))

\* apply_mapping(), the user having typed `text` into field i of row r
apply_mapping(s, r, i, text) ==
    /\ r \in 1..Len(mapping_rows[s])
    /\ i \in 1..Len(mapping_rows[s][r].driver_fields)
    /\ ApplyRows(s, [mapping_rows[s] EXCEPT ![r].driver_fields[i] = text])
    /\ UNCHANGED <<target, drivers, normalize_weights, use_constraints,
                   blacklist_attrs, weight_attrs, geo_visibility, selection,
                   locked_attrs, string_attrs, nodes_before_connect, config_file>>

-----------------------------------------------------------------------------
(* RigConnectorUI: the handlers of the main window that drive a session.     *)
(* The window's text fields are what the user typed: they are inputs.        *)

\* the driver rows a user fills in: control sets, each with the slider at 0.5
DriverRows == {<<"drvA:ControlSet">>, <<"drvA:ControlSet", "drvB:ControlSet">>}

RECURSIVE AddDrivers(_, _, _)
\* add_driver(driver_set, 0.5) for each set of the rows, from position i
AddDrivers(drvs, sets, i) ==
    IF i > Len(sets) THEN drvs
    ELSE LET driver == DriverRig(sets[i], 5)
         IN AddDrivers(IF Len(driver.controls) > 0 THEN Append(drvs, driver) ELSE drvs,
                       sets, i + 1)

\* RigConnectorUI.connect_rigs with the rigs the fields name
UIConnect(s, tgt, drvs) ==
    /\ Len(tgt.controls) > 0
    /\ drvs # <<>>
    /\ target' = [target EXCEPT ![s] = tgt]
    /\ drivers' = [drivers EXCEPT ![s] = drvs]
    /\ normalize_weights' = [normalize_weights EXCEPT ![s] = TRUE]
    /\ use_constraints' = [use_constraints EXCEPT ![s] = TRUE]
    /\ blacklist_attrs' = [blacklist_attrs EXCEPT ![s] = <<>>]
    /\ mapping_rows' = [mapping_rows EXCEPT ![s] = <<>>]
    /\ ConnectWith(s, tgt, drvs, <<>>, TRUE, AutoMatched(tgt, drvs, EmptyMapping))
    /\ UNCHANGED <<geo_visibility, locked_attrs, string_attrs, config_file>>

\* RigConnectorUI.connect_rigs: a new RigConnector replaces the window's session,
\* gets the target and the drivers of the fields and connects.  The mapping
\* window of the replaced object is taken to be closed.
ui_connect_rigs(s, target_set, driver_sets) ==
    UIConnect(s, TargetRig(target_set), AddDrivers(<<>>, driver_sets, 1))

\* RigConnectorUI.open_mapping_ui: the session takes the rigs of the fields,
\* matches if it has no mapping, and the mapping window is built
open_mapping_ui(s, target_set, driver_sets) ==
    LET tgt == TargetRig(target_set)
        drvs == AddDrivers(<<>>, driver_sets, 1)
        mapping == IF control_mapping[s] = EmptyMapping
                   THEN AutoMatched(tgt, drvs, control_mapping[s])
                   ELSE control_mapping[s]
    IN /\ target_set \in nodes
       /\ \A k \in 1..Len(driver_sets) : driver_sets[k] \in nodes
       /\ target' = [target EXCEPT ![s] = tgt]
       /\ drivers' = [drivers EXCEPT ![s] = drvs]
       /\ control_mapping' = [control_mapping EXCEPT ![s] = mapping]
       /\ mapping_rows' = [mapping_rows EXCEPT ![s] = BuildRows(nodes, mapping, Len(drvs))]
       /\ last' = Call("open_mapping_ui", s, 0, RowsReturn(mapping, Len(drvs)), -1)
       /\ UNCHANGED <<control_locator, normalize_weights, use_constraints,
                      constraint_nodes, blend_nodes, blacklist_attrs, sceneVars,
                      locked_attrs, string_attrs, nodes_before_connect, config_file>>

-----------------------------------------------------------------------------
(* GT_tools/Delelte_Nodes_By_Name.py: delete_nodes_by_patterns.  The tool    *)
(* works on a scene of its own; a node is named by its long name.            *)

\* the nodes of the scene: a group with a joint below it, a joint, a locator,
\* a control, a mesh
JunkNodes == {"|old_grp", "|old_grp|spine_jnt", "|old_jnt", "|tmp_loc",
              "|tmp_old_ctl", "|body_geo"}

\* cmds.nodeType(n)
nodeType(n) ==
    IF n \in {"|old_grp|spine_jnt", "|old_jnt"} THEN "joint" ELSE "transform"

\* the nodes below n in the hierarchy
Descendants(n) == IF n = "|old_grp" THEN {"|old_grp|spine_jnt"} ELSE {}

\* does cmds.ls('*pattern*') list n: the pattern is a part of the node's name
NameHolds(n, pattern) ==
    CASE pattern = "old_" -> n \in {"|old_grp", "|old_jnt", "|tmp_old_ctl"}
      [] pattern = "tmp" -> n \in {"|tmp_loc", "|tmp_old_ctl"}
      [] OTHER -> FALSE

\* the pattern lists a caller passes
PatternLists == {<<>>, <<"old_">>, <<"tmp">>, <<"old_", "tmp">>, <<"fin">>}

\* the plug that stands for cmds.lockNode(n) in locked_attrs
NodeLock(n) == <<n, "lockNode">>

\* all_nodes_to_delete after "Search for each pattern" and the removal of
\* duplicates
NodesFound(ns, patterns) ==
    {n \in ns : \E i \in 1..Len(patterns) : NameHolds(n, patterns[i])}

\* "Filter out joints if requested"
JointFilter(found, exclude_joints) ==
    IF exclude_joints THEN {n \in found : nodeType(n) # "joint"} ELSE found

\* the scenes cmds.delete(all_nodes_to_delete) can leave: the nodes go with
\* all that is below them; a locked node makes the command raise, after it
\* has deleted nothing or the nodes it could
DeleteCmd(ns, locked, gone) ==
    IF \E n \in gone : NodeLock(n) \in locked
    THEN {[nodes |-> ns, raised |-> TRUE],
          [nodes |-> ns \ ({n \in gone : NodeLock(n) \notin locked}
                            \cup UNION {Descendants(n) : n \in {g \in gone : NodeLock(g) \notin locked}}),
           raised |-> TRUE]}
    ELSE {[nodes |-> ns \ (gone \cup UNION {Descendants(n) : n \in gone}),
           raised |-> FALSE]}

\* what a call can leave and return: [nodes, ret].  No patterns, nothing
\* found and nothing left after the filter return 0; a dry run returns the
\* length of the list; "Error during deletion" returns 0
DeleteOutcomes(ns, locked, patterns, exclude_joints, dry_run) ==
    IF JointFilter(NodesFound(ns, patterns), exclude_joints) = {}
    THEN {[nodes |-> ns, ret |-> 0]}
    ELSE IF dry_run
    THEN {[nodes |-> ns,
           ret |-> Cardinality(JointFilter(NodesFound(ns, patterns), exclude_joints))]}
    ELSE {[nodes |-> o.nodes,
           ret |-> IF o.raised THEN 0
                   ELSE Cardinality(JointFilter(NodesFound(ns, patterns), exclude_joints))] :
            o \in DeleteCmd(ns, locked,
                            JointFilter(NodesFound(ns, patterns), exclude_joints))}

\* delete_nodes_by_patterns(patterns, exclude_joints, dry_run); the record of
\* the call keeps its arguments, and the count it returned in `index`
delete_nodes_by_patterns(patterns, exclude_joints, dry_run) ==
    /\ \E o \in DeleteOutcomes(nodes, locked_attrs, patterns, exclude_joints, dry_run) :
          /\ nodes' = o.nodes
          /\ last' = [op |-> "delete_nodes_by_patterns", s |-> "A", index |-> o.ret,
                      ret |-> "int", was |-> -1, skipped |-> {}, swept |-> FALSE,
                      patterns |-> patterns, exclude_joints |-> exclude_joints,
                      dry_run |-> dry_run]
    /\ UNCHANGED <<sessionVars, mapping_rows, conn, weight_attrs, geo_visibility,
                   selection, locked_attrs, string_attrs, nodes_before_connect,
                   config_file>>

-----------------------------------------------------------------------------
(* GT_tools/camera_switcher.py: the camera switcher window.  current_index   *)
(* counts from 0 as in the source.                                           *)

\* the perspective cameras of the scene, in the order cmds.ls lists them;
\* persp is the camera every scene holds
Cameras == <<"persp", "cam1", "cam2">>

\* get_perspective_cameras()
get_perspective_cameras(ns) ==
    LET Exists(c) == c \in ns
    IN SelectSeq(Cameras, Exists)

\* what create_camera_switcher_ui does to the globals: with cameras in the
\* scene, one checked checkbox per camera and every camera in checked_cameras
create_camera_switcher_ui ==
    IF get_perspective_cameras(nodes) = <<>>
    THEN UNCHANGED <<camera_checkboxes, checked_cameras>>
    ELSE /\ camera_checkboxes' = [c \in SeqToSet(get_perspective_cameras(nodes)) |-> TRUE]
         /\ checked_cameras' = get_perspective_cameras(nodes)

\* refresh_camera_list()
refresh_camera_list ==
    /\ current_index' = 0
    /\ create_camera_switcher_ui
    /\ last' = Call("refresh_camera_list", "A", 0, "None", -1)
    /\ UNCHANGED <<saved_cameras, look_thru, rigVars, nodes, master_keys>>

\* a click on the checkbox of a camera, and update_checked_cameras(camera)
update_checked_cameras(camera) ==
    /\ camera \in DOMAIN camera_checkboxes
    /\ camera_checkboxes' = [camera_checkboxes EXCEPT ![camera] = ~@]
    /\ checked_cameras' =
         IF ~camera_checkboxes[camera]
         THEN IF InSeq(camera, checked_cameras) THEN checked_cameras
              ELSE Append(checked_cameras, camera)
         ELSE IF InSeq(camera, checked_cameras) THEN RemoveFirst(checked_cameras, camera)
              ELSE checked_cameras
    /\ last' = Call("update_checked_cameras", "A", 0, "None", -1)
    /\ UNCHANGED <<current_index, saved_cameras, look_thru, rigVars, nodes, master_keys>>

\* save_selection(): the checked cameras, in the order of the dictionary
save_selection ==
    LET Checked(c) == c \in DOMAIN camera_checkboxes /\ camera_checkboxes[c]
    IN /\ saved_cameras' = SelectSeq(Cameras, Checked)
       /\ current_index' = 0
       /\ last' = Call("save_selection", "A", 0, "None", -1)
       /\ UNCHANGED <<camera_checkboxes, checked_cameras, look_thru, rigVars, nodes,
                      master_keys>>

\* active_list of switch_cycle: the saved selection, else the checked
\* cameras, else every perspective camera
ActiveList(ns, saved, checked) ==
    IF saved # <<>> THEN saved
    ELSE IF checked # <<>> THEN checked
    ELSE get_perspective_cameras(ns)

\* "wrap index"
WrapIndex(index, active_list) == IF index >= Len(active_list) THEN 0 ELSE index

\* switch_cycle() from "wrap index" on, cam being active_list[current_index]
SwitchTo(cam, index) ==
    IF cam \in nodes
    THEN /\ look_thru' = cam
         /\ current_index' = index + 1
         /\ camera_checkboxes' =
              IF saved_cameras = <<>> /\ checked_cameras = <<>>
              THEN [c \in DOMAIN camera_checkboxes |-> c \in nodes]
              ELSE camera_checkboxes
         /\ last' = Call("switch_cycle", "A", 0, cam, -1)
         /\ UNCHANGED <<checked_cameras, saved_cameras>>
    ELSE /\ current_index' = 0
         /\ create_camera_switcher_ui
         /\ last' = Call("switch_cycle", "A", 0, "None", -1)
         /\ UNCHANGED <<saved_cameras, look_thru>>

\* switch_cycle()
switch_cycle ==
    /\ IF ActiveList(nodes, saved_cameras, checked_cameras) = <<>>
       THEN /\ last' = Call("switch_cycle", "A", 0, "None", -1)
            /\ UNCHANGED cameraVars
       ELSE SwitchTo(ActiveList(nodes, saved_cameras, checked_cameras)
                       [WrapIndex(current_index,
                                  ActiveList(nodes, saved_cameras, checked_cameras)) + 1],
                     WrapIndex(current_index,
                               ActiveList(nodes, saved_cameras, checked_cameras)))
    /\ UNCHANGED <<rigVars, nodes, master_keys>>

\* the user deletes a camera of the scene (persp cannot be deleted)
DeleteCamera(cam) ==
    /\ cam \in nodes
    /\ cam # "persp"
    /\ nodes' = nodes \ {cam}
    /\ look_thru' = IF look_thru = cam THEN "None" ELSE look_thru
    /\ last' = Call("delete", "A", 0, cam, -1)
    /\ UNCHANGED <<camera_checkboxes, checked_cameras, current_index, saved_cameras,
                   rigVars, master_keys>>

-----------------------------------------------------------------------------
(* Create_Master_Cam.py: buildMasterCamera.  An entry of the shot list is    *)
(* its text cut into tokens: a name, "|", "-" or a number.                   *)

\* the scene: the master camera, two shot cameras and a group with no shape
MasterNodes == {"master", "masterShape", "shotA", "shotAShape", "shotB", "shotBShape",
                "grp"}

\* get_shape(cam)
get_shape(ns, cam) == IF cam \o "Shape" \in ns THEN cam \o "Shape" ELSE "None"

RECURSIVE SplitAt(_, _)
\* text.split(sep): the pieces between the separators
SplitAt(text, sep) ==
    IF text = <<>> THEN << <<>> >>
    ELSE IF Head(text) = sep THEN << <<>> >> \o SplitAt(Tail(text), sep)
    ELSE << <<Head(text)>> \o Head(SplitAt(Tail(text), sep)) >>
            \o Tail(SplitAt(Tail(text), sep))

\* the texts int() takes
IntTexts == {"1", "2", "3"}

\* int(x) of a text that int() takes
IntOf(x) == CASE x = "1" -> 1 [] x = "2" -> 2 [] x = "3" -> 3

\* int(x) does not raise on the piece
IsInt(piece) == Len(piece) = 1 /\ piece[1] \in IntTexts

\* an entry the try block raises on
Unparsed == [ok |-> FALSE, cam |-> "", start |-> 0, end |-> 0]

\* `start, end = [int(x) for x in frame_range.strip().split("-")]`
ParseRange(cam, range) ==
    IF Len(range) # 2 \/ ~IsInt(range[1]) \/ ~IsInt(range[2]) THEN Unparsed
    ELSE [ok |-> TRUE, cam |-> cam, start |-> IntOf(range[1][1]),
          end |-> IntOf(range[2][1])]

\* `cam, frame_range = entry.split("|")` and `cam.strip()`
ParseParts(parts) ==
    IF Len(parts) # 2 THEN Unparsed
    ELSE ParseRange(IF Len(parts[1]) = 1 THEN parts[1][1] ELSE "", SplitAt(parts[2], "-"))

\* the try block of the loop over the entries
ParseEntry(entry) == ParseParts(SplitAt(entry, "|"))

\* an entry that gets into shot_data
ValidShot(ns, entry) ==
    /\ ParseEntry(entry).ok
    /\ ParseEntry(entry).cam \in ns
    /\ get_shape(ns, ParseEntry(entry).cam) # "None"

\* shot_data
ShotData(ns, entries) ==
    LET Valid(entry) == ValidShot(ns, entry)
        Shots == SelectSeq(entries, Valid)
    IN [k \in 1..Len(Shots) |-> ParseEntry(Shots[k])]

\* cmds.cutKey(master_cam, clear=True) and cmds.cutKey(master_shape, clear=True)
cutKey(keys) == [transform |-> {}, shape |-> {}]

\* the keys once one shot is baked onto the master camera: bakeResults over
\* (start, end) with preserveOutsideKeys, and the key of the shape's
\* attributes at start when attributes are selected
BakeShot(keys, shot, selected_attrs) ==
    [transform |-> {k \in keys.transform : k[1] < shot.start \/ k[1] > shot.end}
                     \cup {<<f, shot.cam>> : f \in shot.start..shot.end},
     shape |-> IF selected_attrs = <<>> THEN keys.shape
               ELSE {k \in keys.shape : k[1] # shot.start} \cup {<<shot.start, shot.cam>>}]

RECURSIVE BakeShots(_, _, _)
\* "Process each shot"
BakeShots(keys, shot_data, selected_attrs) ==
    IF shot_data = <<>> THEN keys
    ELSE BakeShots(BakeShot(keys, Head(shot_data), selected_attrs), Tail(shot_data),
                   selected_attrs)

\* the keys buildMasterCamera leaves, and the warning it returns with
BuildOutcome(ns, keys, master_cam, entries, selected_attrs) ==
    IF master_cam = ""
    THEN [keys |-> keys, warned |-> "Please specify a master camera."]
    ELSE IF get_shape(ns, master_cam) = "None"
    THEN [keys |-> keys, warned |-> "Master camera has no shape node."]
    ELSE IF entries = <<>>
    THEN [keys |-> keys, warned |-> "No shots defined."]
    ELSE IF ShotData(ns, entries) = <<>>
    THEN [keys |-> cutKey(keys), warned |-> "No valid shots to process."]
    ELSE [keys |-> BakeShots(cutKey(keys), ShotData(ns, entries), selected_attrs),
          warned |-> ""]

\* buildMasterCamera(master_field, shot_list, attr_scroll), the arguments
\* being what the three widgets hold
buildMasterCamera(master_cam, entries, selected_attrs) ==
    /\ master_keys' = BuildOutcome(nodes, master_keys, master_cam, entries,
                                   selected_attrs).keys
    /\ last' = [op |-> "buildMasterCamera", s |-> "A", index |-> 0, ret |-> "None",
                was |-> -1, skipped |-> {}, swept |-> FALSE,
                master_cam |-> master_cam, entries |-> entries,
                warned |-> BuildOutcome(nodes, master_keys, master_cam, entries,
                                        selected_attrs).warned]
    /\ UNCHANGED <<rigVars, nodes, cameraVars>>

-----------------------------------------------------------------------------
(* Initial state: fresh RigConnector objects in a scene that holds the rigs *)

\* the scenes the tool may start in.  extra: what the scene holds besides the
\* rigs (a node somebody named with the tag, or the controller a former run
\* left); locked, strings: the locked plugs and the non-numeric attributes
StartScenes ==
    {[extra |-> {}, locked |-> {}, strings |-> {}],
     [extra |-> {ForeignTagged}, locked |-> {}, strings |-> {}],
     [extra |-> {Locator, LocatorShape}, locked |-> {}, strings |-> {}],
     [extra |-> {}, locked |-> {<<"tgt:leg", "rotate">>}, strings |-> {}],
     [extra |-> {}, locked |-> {}, strings |-> {<<"drvA:arm", "curl">>}]}

\* fresh sessions in a scene: ns its nodes, w the weight scalars of a
\* controller it holds, locked and strs its locked plugs and non-numeric
\* attributes; the configuration path holds `file`
InitIn(file, ns, w, locked, strs) ==
    /\ target = [s \in Sessions |-> NoTarget]
    /\ drivers = [s \in Sessions |-> <<>>]
    /\ control_locator = [s \in Sessions |-> "None"]
    /\ normalize_weights = [s \in Sessions |-> TRUE]
    /\ use_constraints = [s \in Sessions |-> TRUE]
    /\ control_mapping = [s \in Sessions |-> EmptyMapping]
    /\ constraint_nodes = [s \in Sessions |-> <<>>]
    /\ blend_nodes = [s \in Sessions |-> <<>>]
    /\ blacklist_attrs = [s \in Sessions |-> <<>>]
    /\ mapping_rows = [s \in Sessions |-> <<>>]
    /\ nodes = ns
    /\ weight_attrs = w
    /\ locked_attrs = locked
    /\ string_attrs = strs
    /\ conn = {}
    /\ geo_visibility = [g \in GeometryNodes |-> TRUE]
    /\ selection = <<>>
    /\ config_file = file
    /\ last = Call("init", "A", 0, "None", -1)
    /\ nodes_before_connect = [s \in Sessions |-> {}]
    /\ calls = 0

\* fresh sessions in one of the scenes of the rigs
\* the camera switcher was not opened and the master camera has no key
ToolsInit ==
    /\ camera_checkboxes = [c \in {} |-> TRUE]
    /\ checked_cameras = <<>>
    /\ current_index = 0
    /\ saved_cameras = <<>>
    /\ look_thru = "None"
    /\ master_keys = [transform |-> {}, shape |-> {}]

InitWith(file) ==
    /\ \E sc \in StartScenes :
          InitIn(file, RigNodes \cup sc.extra,
                 IF Locator \in sc.extra THEN <<5>> ELSE <<>>, sc.locked, sc.strings)
    /\ ToolsInit

Init == InitWith(NoFile)

\* the configuration path may hold a file that is no JSON text
PairInit == \E file \in {NoFile, Unparseable} : InitWith(file)

\* the names a caller passes to add_driver: two rigs, a set without members
\* and a name no node has
DriverSets == {"drvA:ControlSet", "drvB:ControlSet", "emptySet", "noSuchSet"}

\* the sessions that run in specification Spec
Running == {"A"}

\* the budget of calls of a run
Tick == calls < MaxCalls /\ calls' = calls + 1

\* a call of the rig connector or of the node deleter: the globals of the
\* camera switcher and the keys of the master camera stay as they are
RigTick == Tick /\ UNCHANGED <<cameraVars, master_keys>>

\* one call of the RigConnector API, or of the main window's connect button
Next ==
    \E s \in Running :
        \/ \E cs \in {"tgt:ControlSet", "emptySet"} : RigTick /\ set_target(s, cs)
        \/ \E cs \in DriverSets, w \in Weights :
              RigTick /\ add_driver(s, cs, w)
        \/ \E i \in 0..MaxDrivers : RigTick /\ remove_driver(s, i)
        \/ RigTick /\ auto_match_controls(s)
        \/ RigTick /\ connect_rigs(s)
        \/ \E ds \in DriverRows : RigTick /\ ui_connect_rigs(s, "tgt:ControlSet", ds)
        \/ \E i \in 0..MaxDrivers : RigTick /\ solo_driver(s, i)
        \/ \E i \in 0..MaxDrivers, m \in BOOLEAN : RigTick /\ mute_driver(s, i, m)
        \/ RigTick /\ cleanup(s)
        \/ RigTick /\ save_config(s)
        \/ RigTick /\ load_config(s)

Spec == Init /\ [][Next]_vars

\* one call of the windows: connect, the mapping window and its buttons, cleanup
MappingNext ==
    \E s \in Running :
        \/ \E ds \in DriverRows : RigTick /\ ui_connect_rigs(s, "tgt:ControlSet", ds)
        \/ \E ds \in DriverRows : RigTick /\ open_mapping_ui(s, "tgt:ControlSet", ds)
        \/ RigTick /\ create_ui(s)
        \/ RigTick /\ auto_match_all(s)
        \/ RigTick /\ clear_all(s)
        \/ \E r \in 1..Cardinality(TargetControls), i \in 1..MaxDrivers, text \in FieldTexts :
              RigTick /\ apply_mapping(s, r, i, text)
        \/ RigTick /\ cleanup(s)

MappingSpec == Init /\ [][MappingNext]_vars

\* one call of a session that connects, changes its target, bakes or cleans up
BakeNext ==
    \E s \in Running :
        \/ \E ds \in DriverRows : RigTick /\ ui_connect_rigs(s, "tgt:ControlSet", ds)
        \/ \E cs \in {"tgt:ControlSet", "emptySet"} : RigTick /\ set_target(s, cs)
        \/ \E bake_set \in BakeSets : RigTick /\ bake_and_cleanup(s, bake_set)
        \/ RigTick /\ cleanup(s)

BakeSpec == Init /\ [][BakeNext]_vars

\* one call of one of two sessions that work in the same scene and on the
\* same configuration path
PairNext ==
    \E s \in Sessions :
        \/ \E ds \in DriverRows : RigTick /\ ui_connect_rigs(s, "tgt:ControlSet", ds)
        \/ RigTick /\ save_config(s)
        \/ RigTick /\ load_config(s)
        \/ RigTick /\ cleanup(s)

PairSpec == PairInit /\ [][PairNext]_vars

\* one call of a session that gathers its rigs and matches them
MatchNext ==
    \E s \in Running :
        \/ \E cs \in {"tgt:ControlSet", "emptySet"} : RigTick /\ set_target(s, cs)
        \/ \E cs \in {"drvA:ControlSet", "drvB:ControlSet", "drvC:ControlSet"}, w \in Weights :
              RigTick /\ add_driver(s, cs, w)
        \/ \E i \in 0..MaxDrivers : RigTick /\ remove_driver(s, i)
        \/ RigTick /\ auto_match_controls(s)

MatchSpec == Init /\ [][MatchNext]_vars

\* one call of a session that gathers its rigs, connects, sets weights and
\* cleans up, all through the RigConnector object it keeps
TrackNext ==
    \E s \in Running :
        \/ RigTick /\ set_target(s, "tgt:ControlSet")
        \/ \E cs \in {"drvA:ControlSet", "drvB:ControlSet"}, w \in Weights :
              RigTick /\ add_driver(s, cs, w)
        \/ RigTick /\ connect_rigs(s)
        \/ \E i \in 0..MaxDrivers : RigTick /\ solo_driver(s, i)
        \/ \E i \in 0..MaxDrivers, m \in BOOLEAN : RigTick /\ mute_driver(s, i, m)
        \/ RigTick /\ cleanup(s)

TrackSpec == Init /\ [][TrackNext]_vars

\* the camera switcher, opened in a scene of three perspective cameras
CameraInit ==
    /\ InitIn(NoFile, SeqToSet(Cameras), <<>>, {}, {})
    /\ camera_checkboxes = [c \in SeqToSet(Cameras) |-> TRUE]
    /\ checked_cameras = Cameras
    /\ current_index = 0
    /\ saved_cameras = <<>>
    /\ look_thru = "persp"
    /\ master_keys = [transform |-> {}, shape |-> {}]

\* a press of the Switch button or of its hotkey
Cycle == switch_cycle /\ UNCHANGED calls

\* the user checks and unchecks cameras, saves the selection, refreshes the
\* window and deletes cameras, a bounded number of times, and switches
CycleNext ==
    \/ \E camera \in SeqToSet(Cameras) : Tick /\ update_checked_cameras(camera)
    \/ Tick /\ save_selection
    \/ Tick /\ refresh_camera_list
    \/ \E cam \in SeqToSet(Cameras) : Tick /\ DeleteCamera(cam)
    \/ Cycle

\* the user goes on pressing Switch
CycleSpec == CameraInit /\ [][CycleNext]_vars /\ WF_vars(Cycle)

\* what the master camera field holds
MasterFields == {"", "master", "grp"}

\* the entries of the shot list: two shots, a camera that does not exist, a
\* node without a shape, an entry with no "|", one with a range that is no
\* pair of numbers, and one with a negative frame
ShotEntries ==
    {<<"shotA", "|", "1", "-", "2">>, <<"shotB", "|", "2", "-", "3">>,
     <<"ghost", "|", "1", "-", "2">>, <<"grp", "|", "1", "-", "2">>,
     <<"shotA", "1", "-", "2">>, <<"shotA", "|", "1">>,
     <<"shotA", "|", "-", "1", "-", "2">>}

\* the shot lists: up to MaxShots entries
MaxShots == 2
ShotLists == UNION {[1..n -> ShotEntries] : n \in 0..MaxShots}

\* the master camera has no animation, or keys of an earlier build
MasterInit ==
    /\ InitIn(NoFile, MasterNodes, <<>>, {}, {})
    /\ camera_checkboxes = [c \in {} |-> TRUE]
    /\ checked_cameras = <<>>
    /\ current_index = 0
    /\ saved_cameras = <<>>
    /\ look_thru = "None"
    /\ master_keys \in {[transform |-> {}, shape |-> {}],
                        [transform |-> {<<1, "old">>, <<5, "old">>},
                         shape |-> {<<1, "old">>}]}

\* the Build Master Camera button is pressed at most this many times
MaxBuilds == 2

\* a press of the Build Master Camera button
MasterNext ==
    \E master_cam \in MasterFields, entries \in ShotLists,
       selected_attrs \in {<<>>, <<"focalLength">>} :
        /\ calls < MaxBuilds
        /\ calls' = calls + 1
        /\ buildMasterCamera(master_cam, entries, selected_attrs)

MasterSpec == MasterInit /\ [][MasterNext]_vars

\* the scene of delete_nodes_by_patterns, with the locator locked or not
DeleteInit ==
    /\ \E locked \in {{}, {NodeLock("|tmp_loc")}} :
          InitIn(NoFile, JunkNodes, <<>>, locked, {})
    /\ ToolsInit

\* one call of delete_nodes_by_patterns
DeleteNext ==
    \E patterns \in PatternLists, exclude_joints \in BOOLEAN, dry_run \in BOOLEAN :
        RigTick /\ delete_nodes_by_patterns(patterns, exclude_joints, dry_run)

DeleteSpec == DeleteInit /\ [][DeleteNext]_vars

-----------------------------------------------------------------------------
(* Teardown: connect_rigs followed by cleanup, cleanup of an Idle session    *)

\* the session is Idle: no controller, nothing tracked
Idle(s) ==
    /\ control_locator[s] = "None"
    /\ constraint_nodes[s] = <<>>
    /\ blend_nodes[s] = <<>>

\* this step is a cleanup() that directly follows a connect_rigs() that built
ConnectThenCleanup ==
    /\ last.op = "connect_rigs"
    /\ last.ret = "True"
    /\ last'.op = "cleanup"
    /\ last'.s = last.s

IdleCleanup ==
    /\ last'.op = "cleanup"
    /\ Idle(last'.s)

-----------------------------------------------------------------------------
(* The control mapping, solo and mute *)

\* C4: in every reachable session state every value of control_mapping is a
\* list as long as drivers, slot k holding None or a control of driver k.
C4_SlotListsMatchDrivers ==
    \A s \in Sessions : \A t \in DOMAIN control_mapping[s] :
        /\ Len(control_mapping[s][t]) = Len(drivers[s])
        /\ \A k \in 1..Len(drivers[s]) :
              \/ control_mapping[s][t][k] = "None"
              \/ InSeq(control_mapping[s][t][k], drivers[s][k].controls)

\* the session's controller is in the scene and has a weight scalar for
\* every driver of the session, as connect_rigs leaves it
Connected(s) ==
    /\ LocatorLive(s)
    /\ Len(drivers[s]) <= LiveWeights(nodes, weight_attrs)

\* C5: in a session that connect_rigs() has connected, solo_driver(i) with
\* 0 <= i < len(drivers) leaves driver_{i+1}_weight at 1.0 and the weight of
\* every other driver at 0.0, and leaves constraint_nodes, blend_nodes and the
\* set of scene nodes unchanged.
C5_SoloWritesWeightsOnly ==
    [][\A s \in Sessions :
         (/\ last'.op = "solo_driver"
          /\ last'.s = s
          /\ Connected(s)
          /\ last'.index \in 0..(Len(drivers[s]) - 1))
         => /\ \A k \in 1..Len(drivers[s]) :
                  weight_attrs'[k] = (IF k = last'.index + 1 THEN 10 ELSE 0)
            /\ UNCHANGED <<constraint_nodes, blend_nodes, nodes>>]_vars

\* solo_driver(1) has run in a connected session of two drivers
C5_Witness ==
    /\ last.op = "solo_driver"
    /\ last.index = 1
    /\ last.ret = "None"
    /\ Connected(last.s)
    /\ Len(drivers[last.s]) = 2
    /\ weight_attrs = <<0, 10>>
    /\ blend_nodes[last.s] # <<>>

\* C6: mute_driver(i, True) directly followed by mute_driver(i, False) leaves
\* driver i's weight scalar at the value it held just before the mute,
\* whatever ran before (a solo_driver included); while muted the scalar is 0.0.
C6_UnmuteRestoresPriorWeight ==
    /\ (last.op = "mute_driver" /\ last.was >= 0) => weight_attrs[last.index + 1] = 0
    /\ (last.op = "unmute_driver" /\ last.was >= 0) =>
          weight_attrs[last.index + 1] = last.was

\* the printed errors and the scene of the same connect_rigs() with nothing
\* locked and every attribute numeric, taken at the step that connects s
FailureFree(s) ==
    BuildIn({}, {}, target'[s], drivers'[s], blacklist_attrs'[s], use_constraints'[s],
            control_mapping'[s])

\* the constraints on control t: the kind, the drivers in target order, and
\* the controller scalars wired to the weights
ConstraintShape(cn, t) ==
    UNION {{[kind |-> k,
             targets |-> ConstraintTargets(cn, k, n),
             weights |-> {<<c[2], c[4]>> : c \in {x \in cn : x[1] = Locator /\ x[3] = n}}] :
              n \in ConstraintsOn(cn, k, t)} : k \in {"point", "orient"}}

\* the attribute subgraphs of control t: per driven attribute, the inputs of
\* its sum node: the driver plug and the controller scalar each multiplies
BlendShape(cn, t) ==
    {[attr |-> p[4],
      inputs |-> {[plug |-> f[4],
                   source |-> {<<x[1], x[2]>> : x \in {y \in cn : y[3] = f[1] /\ y[4] = "input1X"}},
                   weight |-> {x[2] : x \in {y \in cn : y[3] = f[1] /\ y[4] = "input2X"}}] :
                    f \in {g \in cn : g[3] = p[1] /\ g[2] = "outputX"}}] :
        p \in {q \in cn : q[3] = t /\ q[2] = "output1D"}}

\* C7: when the build fails for exactly one target control during
\* connect_rigs(), connect_rigs() goes on, and every other target control
\* with a mapped driver gets the constraints and the attribute subgraphs it
\* gets in the run without the failure.
C7_FailureIsIsolated ==
    [][\A s \in Sessions :
         (/\ last'.op = "connect_rigs"
          /\ last'.s = s
          /\ last'.ret = "True"
          /\ Cardinality(last'.skipped) = 1
          /\ FailureFree(s).printed = {})
         => \A t \in SeqToSet(target'[s].controls) \ last'.skipped :
               ValidDrivers(MappingGet(control_mapping'[s], t)) # <<>> =>
                  /\ ConstraintShape(conn', t) = ConstraintShape(FailureFree(s).conn, t)
                  /\ ConstraintShape(conn', t) # {}
                  /\ BlendShape(conn', t) = BlendShape(FailureFree(s).conn, t)]_vars

\* connect_rigs() has printed an error for one control and built constraints
\* and an attribute subgraph for another, which comes later in the loop
C7_Witness ==
    /\ last.op = "connect_rigs"
    /\ last.ret = "True"
    /\ last.skipped = {"tgt:arm"}
    /\ ConstraintShape(conn, "tgt:leg") # {}
    /\ BlendShape(conn, "tgt:leg") # {}

\* C8: the value connect_rigs() returns names the controls it skipped: a run
\* that returns the plain True of a run without failures has skipped none.
C8_ReturnNamesSkipped ==
    (last.op = "connect_rigs" /\ last.ret = ConnectReturn(Untracked([nodes |-> {}, conn |-> {}])))
        => last.skipped = {}

-----------------------------------------------------------------------------
(* The mapping window: apply_mapping *)

\* the nodes built for control t: the constraints that drive it, the sum
\* nodes that drive its attributes and the multiply nodes that feed those
OwnedNodes(cn, t) ==
    LET cons == ConstraintsOn(cn, "point", t) \cup ConstraintsOn(cn, "orient", t)
        sums == {c[1] : c \in {q \in cn : q[3] = t /\ q[2] = "output1D"}}
        mults == {c[1] : c \in {q \in cn : q[3] \in sums /\ q[2] = "outputX"}}
    IN cons \cup sums \cup mults

\* the connections of the nodes of N
NodeLinks(cn, N) == {c \in cn : c[1] \in N \/ c[3] \in N}

\* C9: apply_mapping rebuilds only the target controls whose slot list
\* differs from the previous mapping: a control whose slot list is unchanged
\* keeps its constraint and blend nodes, the same ids with the same connections.
C9_UnchangedControlsKeepNodes ==
    [][\A s \in Sessions :
         (last'.op = "apply_mapping" /\ last'.s = s)
         => \A t \in DOMAIN control_mapping[s] :
               control_mapping'[s][t] = control_mapping[s][t] =>
                  /\ OwnedNodes(conn', t) = OwnedNodes(conn, t)
                  /\ OwnedNodes(conn, t) \subseteq nodes'
                  /\ NodeLinks(conn', OwnedNodes(conn, t)) = NodeLinks(conn, OwnedNodes(conn, t))]_vars

\* the third call of a run was an apply_mapping() in a live session (so the
\* connect button and the mapping window came first) that changed the slot
\* list of tgt:arm and left that of tgt:leg, which has nodes
C9_Witness ==
    /\ calls = 3
    /\ last.op = "apply_mapping"
    /\ last.ret = "None"
    /\ LocatorLive(last.s)
    /\ control_mapping[last.s]["tgt:arm"] # AutoMatch(target[last.s], drivers[last.s])["tgt:arm"]
    /\ control_mapping[last.s]["tgt:leg"] = AutoMatch(target[last.s], drivers[last.s])["tgt:leg"]
    /\ OwnedNodes(conn, "tgt:leg") # {}

\* C10: a remap leaks no node: in a session that has connected, where no
\* build fails, after apply_mapping the multiply nodes in the scene are those
\* a fresh build creates, each feeding a sum node; none is left over from an
\* old slot list.
C10_RemapLeavesNoOrphan ==
    (/\ last.op = "apply_mapping"
     /\ last.ret = "None"
     /\ last.skipped = {}
     /\ nodes_before_connect[last.s] # {}
     /\ locked_attrs = {}
     /\ string_attrs = {})
    => \A m \in nodes \cap MultNames :
          \E c \in conn : c[1] = m /\ c[2] = "outputX" /\ c[3] \in nodes \cap PlusNames

-----------------------------------------------------------------------------
(* bake_and_cleanup *)

\* C11: every call of bake_and_cleanup() on a session whose controller is in
\* the scene ends with the teardown: when it returns no node of the blend is
\* left in the scene and the session is Idle, whatever the target and the
\* bake_set argument.
C11_BakeAlwaysTearsDown ==
    [][(last'.op = "bake_and_cleanup" /\ LocatorLive(last'.s)) =>
         /\ Tagged(nodes') = {}
         /\ control_locator'[last'.s] = "None"
         /\ constraint_nodes'[last'.s] = <<>>
         /\ blend_nodes'[last'.s] = <<>>]_vars

-----------------------------------------------------------------------------
(* save_config and load_config *)

\* the session is as RigConnector() constructs it
Fresh(s) ==
    /\ target[s] = NoTarget
    /\ drivers[s] = <<>>
    /\ control_mapping[s] = EmptyMapping
    /\ normalize_weights[s]
    /\ use_constraints[s]
    /\ blacklist_attrs[s] = <<>>
    /\ Idle(s)

C13_FailedLoadMutatesNothing ==
    [][(last'.op = "load_config" /\ last'.ret \in {"False", "raise"})
       => UNCHANGED <<sessionVars, mapping_rows, sceneVars, config_file>>]_vars

\* a session that holds a target, drivers and a mapping has called load_config
\* on a file that is no JSON text
C13_Witness ==
    /\ last.op = "load_config"
    /\ last.ret = "raise"
    /\ target[last.s].set
    /\ drivers[last.s] # <<>>
    /\ control_mapping[last.s] # EmptyMapping

-----------------------------------------------------------------------------
(* Single-target operations, the controller, matching *)

\* C14: a set_target that returns False keeps the target the session held and
\* no target without controls is ever stored; a remove_driver that returns
\* False keeps the driver list.
C14_FailedCallKeepsState ==
    [][/\ (last'.op = "set_target" /\ last'.ret = "False")
            => target'[last'.s] = target[last'.s]
       /\ \A s \in Sessions : target'[s].set => Len(target'[s].controls) > 0
       /\ (last'.op = "remove_driver" /\ last'.ret = "False")
            => drivers'[last'.s] = drivers[last'.s]]_vars

\* C15: in every reachable state the scene holds at most one controller
\* object, and exactly one, named rig_connector_CTRL, after a connect_rigs()
\* that built, whichever session made it and whatever the scene held before.
C15_OneController ==
    /\ Cardinality(nodes \cap ControllerNames) <= 1
    /\ (last.op = "connect_rigs" /\ last.ret = "True")
          => nodes \cap ControllerNames = {Locator}

\* both sessions have connected, the second while the controller of the
\* first was in the scene
C15_Witness ==
    /\ calls = 2
    /\ last.op = "connect_rigs"
    /\ last.s = "B"
    /\ control_locator["A"] = Locator
    /\ control_locator["B"] = Locator
    /\ Locator \in nodes_before_connect["B"]

\* the name that is left of a control's name without namespace and path
BareName(c) ==
    CASE c \in {"tgt:arm", "drvA:arm", "drvB:arm", "drvC:IK|drvC:arm", "drvC:fk|drvC:arm"} -> "arm"
      [] c \in {"tgt:leg", "drvA:leg", "drvC:hips|leg"} -> "leg"
      [] c = "drvB:hand" -> "hand"
      [] OTHER -> c

\* the members of the driver's control set that bear the name of target control t
NameSakes(driver, t) ==
    {c \in SetMembers[driver.control_set] : BareName(c) = BareName(t)}

\* slot k of every target control holds the namesake of driver k that comes
\* first without regard to case, None when the driver has no namesake
MatchedByName(mapping, tgt, drvs) ==
    /\ DOMAIN mapping = SeqToSet(tgt.controls)
    /\ \A t \in DOMAIN mapping :
          /\ Len(mapping[t]) = Len(drvs)
          /\ \A k \in 1..Len(drvs) :
                IF NameSakes(drvs[k], t) = {}
                THEN mapping[t][k] = "None"
                ELSE /\ mapping[t][k] \in NameSakes(drvs[k], t)
                     /\ \A c \in NameSakes(drvs[k], t) :
                           LowerRank(mapping[t][k]) <= LowerRank(c)

\* C18: auto_match_controls on a session with a target and drivers leaves in
\* slot k of control_mapping[T] the first control of driver k's
\* case-insensitively sorted controls whose name without namespace and path
\* is T's, or None; run again on the same rigs it leaves the same mapping.
C18_AutoMatchByName ==
    [][(/\ last'.op = "auto_match_controls"
        /\ target[last'.s].set
        /\ drivers[last'.s] # <<>>)
       => /\ MatchedByName(control_mapping'[last'.s], target[last'.s], drivers[last'.s])
          /\ (last.op = "auto_match_controls"
                => control_mapping'[last'.s] = control_mapping[last'.s])]_vars

\* auto_match_controls has matched the target's rig with rig drvC, which
\* holds two controls named arm and a control under a path
C18_Witness ==
    /\ last.op = "auto_match_controls"
    /\ target[last.s].set
    /\ "tgt:arm" \in DOMAIN control_mapping[last.s]
    /\ control_mapping[last.s]["tgt:arm"] = <<"drvC:fk|drvC:arm">>
    /\ control_mapping[last.s]["tgt:leg"] = <<"drvC:hips|leg">>

-----------------------------------------------------------------------------
(* delete_nodes_by_patterns *)

\* C16: a call with dry_run=True deletes no node and leaves the scene as it
\* is, and the count it returns is the count the call with dry_run=False in
\* the same scene returns and the number of nodes that call deletes.
C16_DryRunCountsTheDeletion ==
    [][(last'.op = "delete_nodes_by_patterns" /\ last'.dry_run)
       => /\ UNCHANGED <<nodes, conn>>
          /\ \A o \in DeleteOutcomes(nodes, locked_attrs, last'.patterns,
                                      last'.exclude_joints, FALSE) :
                /\ last'.index = o.ret
                /\ last'.index = Cardinality(nodes \ o.nodes)]_vars

\* C17: a call with exclude_joints=True removes no joint: every joint of the
\* scene before the call is in the scene after it.
C17_JointsSurvive ==
    [][(last'.op = "delete_nodes_by_patterns" /\ last'.exclude_joints)
       => \A n \in nodes : nodeType(n) = "joint" => n \in nodes']_vars

-----------------------------------------------------------------------------
(* The constraints connect_rigs and a remap build *)

\* the constraints of the kind on control t that session s tracks
OwnedConstraints(s, kind, t) ==
    ConstraintsOn(conn, kind, t) \cap SeqToSet(constraint_nodes[s])

\* on constraint `node` the weight of driver control c is fed by the
\* controller's scalar of driver k (1-based)
FedBySlot(kind, node, c, k) ==
    \E j \in 1..Len(ConstraintTargets(conn, kind, node)) :
        /\ ConstraintTargets(conn, kind, node)[j] = c
        /\ <<Locator, WeightAttr(k), node, strip_ns(c) \o "W" \o ToString(j - 1)>> \in conn

\* C19: after a connect_rigs, or a remap of a session that has connected, that
\* printed no error, on every constraint the session built the weight plug of each driver control is
\* connected to the controller's scalar of the driver whose mapping slot the
\* control occupies (slot k, 0-based, to driver_{k+1}_weight).
C19_WeightPlugFollowsSlot ==
    (/\ last.op \in {"connect_rigs", "apply_mapping"}
     /\ last.ret \in {"True", "None"}
     /\ last.skipped = {}
     /\ nodes_before_connect[last.s] # {}
     /\ LocatorLive(last.s))
    => \A t \in DOMAIN control_mapping[last.s] :
         \A k \in 1..Len(control_mapping[last.s][t]) :
           \A kind \in {"point", "orient"} :
             \A node \in OwnedConstraints(last.s, kind, t) :
                control_mapping[last.s][t][k] # "None"
                  => FedBySlot(kind, node, control_mapping[last.s][t][k], k)

\* the target controls of the session that have a driver control mapped
MappedControls(s) ==
    {t \in SeqToSet(target[s].controls) :
        ValidDrivers(MappingGet(control_mapping[s], t)) # <<>>}

\* C20: after a connect_rigs() with use_constraints that printed no error,
\* every target control with a mapped driver control owns one point and one
\* orient constraint, constraint_nodes holds twice as many nodes as there are
\* such controls, and a target control without any gets no constraint and
\* no blend node.
C20_ConstraintPairPerMappedControl ==
    (/\ last.op = "connect_rigs"
     /\ last.ret = "True"
     /\ last.skipped = {}
     /\ use_constraints[last.s])
    => /\ \A t \in MappedControls(last.s) :
             /\ Cardinality(OwnedConstraints(last.s, "point", t)) = 1
             /\ Cardinality(OwnedConstraints(last.s, "orient", t)) = 1
       /\ Len(constraint_nodes[last.s]) = 2 * Cardinality(MappedControls(last.s))
       /\ \A t \in SeqToSet(target[last.s].controls) \ MappedControls(last.s) :
             /\ OwnedConstraints(last.s, "point", t) = {}
             /\ OwnedConstraints(last.s, "orient", t) = {}
             /\ \A c \in conn :
                   c[3] = t => c[1] \notin SeqToSet(blend_nodes[last.s])

\* a connect_rigs() that printed no error, for a target with one control that
\* has a mapped driver control and one that has none
C20_Witness ==
    /\ last.op = "connect_rigs"
    /\ last.ret = "True"
    /\ last.skipped = {}
    /\ use_constraints[last.s]
    /\ Cardinality(MappedControls(last.s)) = 1
    /\ Len(target[last.s].controls) = 2
    /\ Len(constraint_nodes[last.s]) = 2

\* the positions of the driver controls vd that expose attr
Contributing(attr, vd) == {i \in 1..Len(vd) : attributeQuery(attr, vd[i])}

\* the multiply nodes among `new` that take attr of one of the controls vd
NewMults(cn, new, attr, vd) ==
    {n \in new \cap MultNames :
        \E i \in 1..Len(vd) : <<vd[i], attr, n, "input1X">> \in cn}

\* the sum nodes among `new` that drive attr of control t
NewSums(cn, new, t, attr) ==
    {p \in new \cap PlusNames : <<p, "output1D", t, attr>> \in cn}

\* the subgraph of attr of control t among the nodes `new`: one multiply node
\* per driver control of vd that has attr, one sum node fed by them all if
\* there is any and none otherwise, all of them in the list bn
SubgraphBuilt(cn, new, bn, t, attr, vd) ==
    /\ Cardinality(NewMults(cn, new, attr, vd)) = Cardinality(Contributing(attr, vd))
    /\ Cardinality(NewSums(cn, new, t, attr))
         = (IF Contributing(attr, vd) = {} THEN 0 ELSE 1)
    /\ \A p \in NewSums(cn, new, t, attr), n \in NewMults(cn, new, attr, vd) :
          \E c \in cn : c[1] = n /\ c[2] = "outputX" /\ c[3] = p
    /\ NewMults(cn, new, attr, vd) \cup NewSums(cn, new, t, attr) \subseteq SeqToSet(bn)

\* the subgraphs of every custom attribute of control t of session s, among
\* the nodes the step has created
SubgraphsBuilt(s, t) ==
    \A k \in 1..Len(CustomAttrs(t, blacklist_attrs'[s])) :
        SubgraphBuilt(conn', nodes' \ nodes, blend_nodes'[s], t,
                      CustomAttrs(t, blacklist_attrs'[s])[k],
                      ValidDrivers(MappingGet(control_mapping'[s], t)))

\* C21 as stated: for each matched target control and each keyable,
\* non-transform, non-blacklisted attribute of it, connect_rigs() creates one
\* multiply node per contributing driver that has the attribute and none for
\* the others, and one sum node connected to the target attribute if and only
\* if a multiply node was created; every created node is in blend_nodes.
C21_SubgraphPerAttribute ==
    [][\A s \in Sessions :
         (last'.op = "connect_rigs" /\ last'.s = s /\ last'.ret = "True")
         => /\ (nodes' \ nodes) \cap (MultNames \cup PlusNames)
                 \subseteq SeqToSet(blend_nodes'[s])
            /\ \A t \in SeqToSet(target'[s].controls) :
                  ValidDrivers(MappingGet(control_mapping'[s], t)) # <<>>
                  => SubgraphsBuilt(s, t)]_vars

\* C21 amended: the same for each matched target control the build printed no
\* warning for; a control whose build raised keeps the nodes created before
\* the error (a multiply node with no sum node) and gets none for the
\* attributes that come after it.
C21_SubgraphPerAttributeBuilt ==
    [][\A s \in Sessions :
         (last'.op = "connect_rigs" /\ last'.s = s /\ last'.ret = "True")
         => /\ (nodes' \ nodes) \cap (MultNames \cup PlusNames)
                 \subseteq SeqToSet(blend_nodes'[s])
            /\ \A t \in SeqToSet(target'[s].controls) \ last'.skipped :
                  ValidDrivers(MappingGet(control_mapping'[s], t)) # <<>>
                  => SubgraphsBuilt(s, t)]_vars

\* connect_rigs() has built, with no warning, a control whose first attribute
\* is summed from two drivers and whose second attribute only one driver has
C21_Witness ==
    /\ last.op = "connect_rigs"
    /\ last.ret = "True"
    /\ last.skipped = {}
    /\ \E p \in nodes \cap PlusNames :
          /\ <<p, "output1D", "tgt:arm", "curl">> \in conn
          /\ Cardinality({c \in conn : c[3] = p /\ c[2] = "outputX"}) = 2
    /\ \E p \in nodes \cap PlusNames :
          /\ <<p, "output1D", "tgt:arm", "spread">> \in conn
          /\ Cardinality({c \in conn : c[3] = p /\ c[2] = "outputX"}) = 1

\* the constraint, multiply and sum nodes of the scene
BuiltNodes == nodes \cap (ConstraintNames \cup MultNames \cup PlusNames)

\* C22: the tracked lists of a session describe what it has built: every id
\* in constraint_nodes and blend_nodes names a node of the scene, and every
\* constraint, multiply or sum node the session has created and the scene
\* still holds is in one of the lists.  (Only the running session creates
\* such nodes here, and no start scene holds one.)
C22_ListsDescribeTheBuild ==
    \A s \in Running :
        /\ SeqToSet(constraint_nodes[s]) \cup SeqToSet(blend_nodes[s]) \subseteq nodes
        /\ BuiltNodes \subseteq SeqToSet(constraint_nodes[s]) \cup SeqToSet(blend_nodes[s])

\* C23: connect_rigs() called again by the same session right after a
\* connect_rigs(), with no cleanup() in between, leaves the set of nodes
\* the first call left: the controller, the constraints, the multiply and
\* the sum nodes, each of them tracked.
C23_ConnectTwiceIsConnectOnce ==
    [][(/\ last.op = "connect_rigs" /\ last.ret = "True"
        /\ last'.op = "connect_rigs" /\ last'.ret = "True"
        /\ last'.s = last.s)
       => /\ nodes' = nodes
          /\ (nodes' \cap (ConstraintNames \cup MultNames \cup PlusNames))
               \subseteq SeqToSet(constraint_nodes'[last.s])
                           \cup SeqToSet(blend_nodes'[last.s])]_vars

\* C24: while the blend of a session is live (its control_locator is set and
\* the controller exists), the controller holds one weight scalar
\* driver_k_weight for each k in 1..len(drivers) and no other: the rig
\* membership does not change once connect_rigs() has run.
C24_OneScalarPerDriver ==
    \A s \in Running :
        LocatorLive(s) => LiveWeights(nodes, weight_attrs) = Len(drivers[s])

\* C25: with two sessions in one scene, only the session whose connect_rigs()
\* created the live controller writes to it or deletes it and its nodes: a
\* solo_driver, mute_driver, cleanup or bake_and_cleanup of the other
\* session, made right after that connect_rigs(), leaves the controller, its
\* weight scalars and the tracked nodes of the session that connected.
C25_OnlyTheOwnerWrites ==
    [][(/\ last.op = "connect_rigs" /\ last.ret = "True"
        /\ last'.op \in {"solo_driver", "mute_driver", "unmute_driver", "cleanup",
                        "bake_and_cleanup"}
        /\ last'.s # last.s)
       => /\ weight_attrs' = weight_attrs
          /\ TrackedNodes(last.s) \subseteq nodes'
          /\ Locator \in nodes']_vars

\* C26: connect_rigs() of a session with no target set or with an empty
\* driver list returns False and changes nothing: no controller is created
\* or deleted, no node or connection of the scene changes, and
\* control_mapping, constraint_nodes and blend_nodes are as they were.
C26_ConnectNeedsTargetAndDrivers ==
    [][\A s \in Sessions :
         (/\ last'.op = "connect_rigs" /\ last'.s = s
          /\ (~target[s].set \/ drivers[s] = <<>>))
         => /\ last'.ret = "False"
            /\ UNCHANGED <<sceneVars, sessionVars>>]_vars

\* connect_rigs() has returned False to a session that holds a target and
\* no driver
C26_Witness ==
    /\ last.op = "connect_rigs"
    /\ last.ret = "False"
    /\ target[last.s].set
    /\ drivers[last.s] = <<>>

\* C27: add_driver on a control set that does not exist or has no members
\* returns False and leaves the driver list and the rest of the session
\* unchanged; on a set with members it returns True and appends one driver,
\* the rig of that set, after the drivers the session holds, which keep
\* their order.
C27_AddDriverAppendsOrRefuses ==
    [][\A s \in Sessions, cs \in DriverSets, w \in Weights :
         add_driver(s, cs, w)
         => IF cs \notin nodes \/ SetMembers[cs] = {}
            THEN /\ last'.ret = "False"
                 /\ UNCHANGED <<sessionVars, sceneVars>>
            ELSE /\ last'.ret = "True"
                 /\ Len(drivers'[s]) = Len(drivers[s]) + 1
                 /\ SubSeq(drivers'[s], 1, Len(drivers[s])) = drivers[s]
                 /\ Last(drivers'[s]).control_set = cs
                 /\ SeqToSet(Last(drivers'[s]).controls) = SetMembers[cs]
                 /\ UNCHANGED <<target, control_locator, control_mapping,
                                constraint_nodes, blend_nodes, sceneVars>>]_vars

\* add_driver has appended a second driver after the first
C27_Witness ==
    /\ last.op = "add_driver"
    /\ last.ret = "True"
    /\ Len(drivers[last.s]) = 2
    /\ drivers[last.s][1].control_set = "drvA:ControlSet"
    /\ drivers[last.s][2].control_set = "drvB:ControlSet"

\* C28: load_config never touches the scene or the live graph: it creates,
\* deletes and connects no node, writes no weight scalar, and leaves
\* control_locator, constraint_nodes and blend_nodes as they were, whether
\* it loads the file or fails.
C28_LoadLeavesTheGraph ==
    [][last'.op = "load_config"
       => UNCHANGED <<nodes, conn, weight_attrs, geo_visibility, selection,
                      control_locator, constraint_nodes, blend_nodes>>]_vars

\* a session with a live blend has loaded a configuration
C28_Witness ==
    /\ last.op = "load_config"
    /\ last.ret = "True"
    /\ LocatorLive(last.s)
    /\ blend_nodes[last.s] # <<>>
    /\ constraint_nodes[last.s] # <<>>

\* C29: once the user has stopped changing the lists and the scene, the
\* presses of Switch go through the active camera list (the saved selection
\* if it is not empty, else the checked cameras): every listed camera that
\* exists in the scene is eventually switched to, also when another listed
\* camera has been deleted.
C29_EveryListedCameraIsReached ==
    \A c \in SeqToSet(Cameras) :
        (/\ calls = MaxCalls
         /\ InSeq(c, ActiveList(nodes, saved_cameras, checked_cameras))
         /\ c \in nodes)
        ~> (last.op = "switch_cycle" /\ last.ret = c)

\* C30: buildMasterCamera changes the animation of the master camera only
\* when at least one entry of the shot list is valid: when every entry is
\* unparsable, names a camera that does not exist or names a node without a
\* shape, the keys of the master camera are as they were.
C30_InvalidShotsKeepTheKeys ==
    [][(/\ last'.op = "buildMasterCamera"
        /\ \A k \in 1..Len(last'.entries) : ~ValidShot(nodes, last'.entries[k]))
       => master_keys' = master_keys]_vars

====
